---- MODULE Spec2Model ----
(***************************************************************************)
(* Model of the ingestion and retrieval engine of the personal assistant   *)
(* backend: Gmail sync (SyncController.performSync), the embedding drain   *)
(* (EmbeddingPipeline.processAllPendingEmbeddings) and the repositories    *)
(* they write through.                                                     *)
(***************************************************************************)
EXTENDS Integers, Sequences, FiniteSets, TLC

(***************************************************************************)
(* Bounds of the model.                                                    *)
(***************************************************************************)
MaxSyncs == 2
MaxMsgs == 5
MaxFaults == 2
\* The pipeline reads 50 documents per iteration and embeds them in chunks
\* of 10 (embeddingPipeline batchSize / batchChunkSize); the model keeps the
\* two-level batching with smaller numbers.
BatchSize == 3
BatchChunkSize == 2

\* Triggers of the embedding cron job
MaxTriggers == 3

\* embedQuery calls, and the span of Date.now() in cache time units
MaxCalls == 3
MaxTime == 3
\* rows of the index that a query can match
MaxDocs == 3
\* cacheMaxSize (100 in the source) and cacheTTL (5 minutes), scaled down
cacheMaxSize == 2
cacheTTL == 2

SyncIds == 1..MaxSyncs
CallIds == 1..MaxCalls
Msgs == 1..MaxMsgs

\* SQL NULL for integer-coded columns (vectors, timestamps).
NULL == -1
\* The empty string '' of a text column; non-empty texts are coded 1, 2, ...
EmptyText == 0
\* A text of white space only.
Whitespace == -2

VARIABLES
    documents,   \* the documents table, rows in created_at order
    syncLogs,    \* the sync_logs table, one row per sync id
    run,         \* the locals of each performSync call and its position
    stream,      \* per sync id, the phases reported on the progress stream
    clock,       \* NOW() of the database
    faults,      \* failures the environment may still inject
    last,        \* the operation that produced the current state
    errorEvents, \* the sync:<source>:error events broadcast, in order
    progressEvents, \* the progress events of the embedding drain, in order
    embeddingCache, \* VectorSearchService.embeddingCache, in insertion order
    calls,       \* the embedQuery calls and their position
    dateNow,     \* Date.now()
    rag,         \* the RAGPipeline.process call and its position
    retry,       \* the embedTextWithRetry call and its position
    chat,        \* the chat request, its position, frames and response
    cron         \* EmbeddingCronJob: isRunning and the executeJob calls

\* The query-embedding cache and its callers.
cacheVars == <<embeddingCache, calls, dateNow>>

\* The state of the query side, which no step of a sync touches.
queryVars == <<cacheVars, rag, retry, chat, cron>>

\* The state of the embedding provider's wrapper and of the chat request.
serviceVars == <<retry, chat, cron>>

\* The state of the ingestion side, which no query touches.
syncVars == <<documents, syncLogs, run, stream, clock, faults, last, errorEvents,
             progressEvents>>

vars == <<documents, syncLogs, run, stream, clock, faults, last, errorEvents,
          progressEvents, queryVars>>

(***************************************************************************)
(* Helpers on sequences.                                                   *)
(***************************************************************************)
Min(a, b) == IF a < b THEN a ELSE b

Range(seq) == { seq[k] : k \in 1..Len(seq) }

Take(seq, n) == SubSeq(seq, 1, Min(n, Len(seq)))

(***************************************************************************)
(* Upstream messages and GmailNormalizer.                                  *)
(***************************************************************************)
\* The body of upstream message m: ordinary text, a body that is only a
\* signature block ("-- \n..."), or a body with no text at all.
MsgBody(m) ==
    CASE m % 4 = 1 -> "text"
      [] m % 4 = 2 -> "text"
      [] m % 4 = 3 -> "blank"
      [] OTHER     -> "signature"

\* GmailNormalizer.cleanContent: the signature block is cut and the rest is
\* trimmed, so a signature-only body becomes ''.
cleanContent(m) == IF MsgBody(m) = "signature" THEN EmptyText ELSE m

\* GmailNormalizer.normalize: null for a message with no content.
normalize(m) ==
    IF MsgBody(m) = "blank"
    THEN [documentId |-> [source |-> "none", id |-> 0], content |-> EmptyText, dropped |-> TRUE]
    ELSE [documentId |-> [source |-> "gmail", id |-> m],
          content |-> cleanContent(m), dropped |-> FALSE]

RECURSIVE normalizeBatch(_)
\* GmailNormalizer.normalizeBatch: map(normalize).filter(doc !== null)
normalizeBatch(rawMessages) ==
    IF rawMessages = <<>> THEN <<>>
    ELSE LET doc == normalize(Head(rawMessages))
         IN  IF doc.dropped THEN normalizeBatch(Tail(rawMessages))
             ELSE <<[documentId |-> doc.documentId, content |-> doc.content]>>
                  \o normalizeBatch(Tail(rawMessages))

\* What a fetch can return: the upstream messages lo..hi, in upstream order.
FetchRange(lo, hi) == [k \in 1..(hi - lo + 1) |-> lo + k - 1]

(***************************************************************************)
(* DocumentRepository.                                                     *)
(***************************************************************************)
\* needs_embedding of a freshly inserted row. The INSERT does not name the
\* column; the value comes from the table definition.
NeedsEmbeddingOnInsert(content) == content # EmptyText

\* The rows holding a document_id.
RowsOf(table, documentId) ==
    { k \in 1..Len(table) : table[k].document_id = documentId }

Count(table, documentId) == Cardinality(RowsOf(table, documentId))

\* DocumentRepository.findByDocumentId: SELECT * WHERE document_id = $1
findByDocumentIdBySource(table, documentId) ==
    { k \in 1..Len(table) : table[k].document_id.source = documentId.source }

findByDocumentIdUnprefixed(table, documentId) ==
    { k \in 1..Len(table) : table[k].document_id = [source |-> "", id |-> documentId.id] }

findByDocumentId(table, documentId) ==
    { k \in 1..Len(table) : table[k].document_id = documentId }

\* An INSERT that reports the new row without keeping it.
createLosesRow(table, document) ==
    IF RowsOf(table, document.document_id) # {}
    THEN [code |-> "23505", table |-> table]
    ELSE [code |-> "ok", table |-> table]

\* DocumentRepository.create: INSERT under the unique constraint on
\* document_id; a violation is SQLSTATE 23505 and leaves the table alone.
create(table, document) ==
    IF RowsOf(table, document.document_id) # {}
    THEN [code |-> "23505", table |-> table]
    ELSE [code |-> "ok",
          table |-> Append(table, [document_id |-> document.document_id,
                                   content |-> document.content,
                                   embedding |-> NULL,
                                   needs_embedding |-> NeedsEmbeddingOnInsert(document.content)])]

(***************************************************************************)
(* EmbeddingRepository and EmbeddingService.                               *)
(***************************************************************************)
\* getDocumentsNeedingEmbedding: needs_embedding = true AND content != '',
\* ORDER BY created_at ASC LIMIT limit. Returns row numbers.
PendingRows(table) ==
    { k \in 1..Len(table) : table[k].needs_embedding /\ table[k].content # EmptyText }

RECURSIVE SortedRows(_)
SortedRows(rows) ==
    IF rows = {} THEN <<>>
    ELSE LET k == CHOOSE x \in rows : \A y \in rows : x <= y
         IN  <<k>> \o SortedRows(rows \ {k})

getDocumentsNeedingEmbedding(table, limit) ==
    LET rows == Take(SortedRows(PendingRows(table)), limit)
    IN  [k \in 1..Len(rows) |-> [document_id |-> table[rows[k]].document_id,
                                 content |-> table[rows[k]].content]]

\* getEmbeddingStats().documents.pending: COUNT(*) FILTER (needs_embedding = true)
pending_count(table) ==
    Cardinality({ k \in 1..Len(table) : table[k].needs_embedding })

\* EmbeddingService.prepareText: trim and collapse whitespace.  A content
\* the normalizer stored is already trimmed and keeps its identity; white
\* space only becomes ''.
prepareText(content) == IF content = Whitespace THEN EmptyText ELSE content

\* EmbeddingService.embedBatch: texts that are empty after trim are filtered
\* out before the provider is called, one result per remaining text. The
\* vector of text t is coded t.
RECURSIVE embedBatch(_)
embedBatch(texts) ==
    IF texts = <<>> THEN <<>>
    ELSE IF Head(texts) = EmptyText THEN embedBatch(Tail(texts))
         ELSE <<[embedding |-> Head(texts), tokens |-> 1]>> \o embedBatch(Tail(texts))

\* One UPDATE of batchUpdateEmbeddings: every row with that document_id.
UpdateEmbedding(table, update) ==
    [k \in 1..Len(table) |->
        IF table[k].document_id = update.documentId
        THEN [table[k] EXCEPT !.embedding = update.embedding, !.needs_embedding = FALSE]
        ELSE table[k]]

RECURSIVE ApplyUpdates(_, _, _, _)
\* The statements of the transaction, run in order on the transaction's
\* view tx of the table; statement number failAt throws (0: none does,
\* Len(updates) + 1: the COMMIT does).
ApplyUpdates(tx, updates, n, failAt) ==
    IF n = failAt THEN [ok |-> FALSE, tx |-> tx]
    ELSE IF n > Len(updates) THEN [ok |-> TRUE, tx |-> tx]
    ELSE ApplyUpdates(UpdateEmbedding(tx, updates[n]), updates, n + 1, failAt)

\* EmbeddingRepository.batchUpdateEmbeddings: BEGIN, the updates, COMMIT;
\* ROLLBACK and rethrow when a statement throws.
batchUpdateEmbeddingsNoRollback(table, updates, failAt) ==
    LET r == ApplyUpdates(table, updates, 1, failAt)
    IN  [ok |-> r.ok, table |-> r.tx]

batchUpdateEmbeddings(table, updates, failAt) ==
    LET r == ApplyUpdates(table, updates, 1, failAt)
    IN  IF r.ok THEN [ok |-> TRUE, table |-> r.tx]
        ELSE [ok |-> FALSE, table |-> table]

(***************************************************************************)
(* SyncLogRepository.                                                      *)
(***************************************************************************)
NoLog == [status |-> "none", documents_fetched |-> 0, documents_stored |-> 0,
          last_sync_timestamp |-> NULL, error_message |-> "", sync_completed_at |-> NULL]

\* SyncLogRepository.create: INSERT (source, status) VALUES ('gmail', 'in_progress')
createLog == [NoLog EXCEPT !.status = "in_progress"]

\* SyncLogRepository.complete: UPDATE ... SET sync_completed_at = NOW(),
\* status, documents_fetched, documents_stored, last_sync_timestamp,
\* error_message WHERE id = $6; every column is overwritten.
complete(status, documentsFetched, documentsStored, lastSyncTimestamp, error, now) ==
    [status |-> status, documents_fetched |-> documentsFetched,
     documents_stored |-> documentsStored, last_sync_timestamp |-> lastSyncTimestamp,
     error_message |-> error, sync_completed_at |-> now]

\* SyncLogRepository.fail: complete(id, {status: 'failed', error, 0, 0})
fail(errorMessage, now) == complete("failed", 0, 0, NULL, errorMessage, now)

\* The sync ids whose row has status success.
SuccessRows(logs) == { t \in DOMAIN logs : logs[t].status = "success" }

\* SyncLogRepository.getLastSuccessfulSync: WHERE status = 'success' ORDER BY
\* sync_completed_at DESC LIMIT 1; 0 stands for no row.
getLastSuccessfulSync(logs) ==
    IF SuccessRows(logs) = {} THEN 0
    ELSE CHOOSE t \in SuccessRows(logs) :
             \A u \in SuccessRows(logs) :
                 logs[u].sync_completed_at <= logs[t].sync_completed_at

\* The cursor of an incremental fetch: lastSync?.sync_completed_at || a week
\* ago (time 0).
since(logs) ==
    LET lastSync == getLastSuccessfulSync(logs)
    IN  IF lastSync = 0 THEN 0 ELSE logs[lastSync].sync_completed_at

(***************************************************************************)
(* Progress stream (SocketServer.emitSyncProgress / Complete / Error).     *)
(***************************************************************************)
\* The phase reported by an event is appended; a repetition of the phase
\* reported last is not recorded again.
Emit(phases, phase) ==
    IF phases # <<>> /\ phases[Len(phases)] = phase THEN phases
    ELSE Append(phases, phase)

RECURSIVE EmitAll(_, _)
EmitAll(phases, more) ==
    IF more = <<>> THEN phases
    ELSE EmitAll(Emit(phases, Head(more)), Tail(more))

\* SocketServer.emitSyncError(source, error): the payload broadcast as
\* sync:<source>:error is built from source, error.message and error.code;
\* no other key of the argument is copied, so the payload has no syncId.
emitSyncError(source, error) ==
    [event |-> "error", source |-> source, syncId |-> NULL,
     message |-> error.message, code |-> error.code]

\* The phase label of the events the drain sends for a sync id.
DrainProgressPhaseWrongLabel == "storing"

DrainProgressPhase == "embedding"

(***************************************************************************)
(* SyncController.performSync, one action per await.                       *)
(***************************************************************************)
IdleRun == [pc |-> "idle", syncType |-> "none", rawMessages |-> <<>>,
            normalizedDocs |-> <<>>, i |-> 1,
            documentsAdded |-> 0, documentsSkipped |-> 0, documentsFailed |-> 0,
            lookupFailed |-> {}, insertFailed |-> {}, snapshot |-> <<>>, stored |-> FALSE,
            initialPending |-> 0, totalProcessed |-> 0,
            batch |-> <<>>, ci |-> 1, since |-> NULL, error |-> ""]

NoOp == [op |-> "init", sync |-> 0, ids |-> {}, outcome |-> "", failAt |-> 0, before |-> <<>>,
         marked |-> 0]

Op(op, s, outcome) == [NoOp EXCEPT !.op = op, !.sync = s, !.outcome = outcome]

Active(s) == run[s].pc \notin {"idle", "done", "failed"}

\* A query string: a word, in lower case or with capitals, with or without
\* surrounding blanks.
NoQuery == [word |-> "", upper |-> FALSE, padded |-> FALSE]

\* No embedding (null).
NoVector == [values |-> NoQuery]

IdleCall == [pc |-> "idle", query |-> NoQuery, start |-> 0,
             provider |-> FALSE, result |-> NoVector]

\* No embedTextWithRetry call: errors are the messages of the errors that
\* embedText threw, waits the delays slept, in milliseconds.
IdleRetry == [pc |-> "idle", text |-> "", attempt |-> 0, errors |-> <<>>,
              waits |-> <<>>, error |-> ""]

\* No chat request.  external is the set of external services called for
\* the request, frames the frames written to the event stream, events the
\* rag:* events emitted for its query id, stored the turns of its
\* conversation and messages the list formatForGemini built from them.
IdleChat == [pc |-> "idle", stream |-> FALSE, body |-> [isString |-> FALSE, text |-> ""],
             userQuery |-> "", conversationId |-> FALSE,
             external |-> {}, saved |-> 0, threw |-> FALSE, frames |-> <<>>,
             events |-> <<>>, stored |-> <<>>, messages |-> <<>>,
             ragResult |-> [results |-> <<>>, prompt |-> "", contextString |-> <<>>,
                            citations |-> <<>>,
                            totalDocuments |-> 0, selectedDocuments |-> 0],
             response |-> [status |-> 0, success |-> FALSE, error |-> "",
                           documentsUsed |-> <<>>, selectedDocuments |-> NULL]]

\* EmbeddingCronJob after its constructor, with no executeJob call made:
\* per call its trigger, its position, isRunning as it found it, and
\* whether it called the pipeline.
IdleJob == [pc |-> "idle", trigger |-> "", found |-> FALSE, called |-> FALSE]

IdleCron == [isRunning |-> FALSE, jobs |-> [t \in 1..MaxTriggers |-> IdleJob]]

IdleRag == [pc |-> "idle", intent |-> "", keywordCount |-> 0, diversify |-> TRUE,
            filters |-> [source |-> "", author |-> "", potentialAuthor |-> "",
                         timeRange |-> [given |-> FALSE, startAge |-> 0, endAge |-> 0]],
            index |-> <<>>, results |-> <<>>, contextString |-> <<>>,
            documents |-> <<>>, citations |-> <<>>]

Init ==
    /\ rag = IdleRag
    /\ retry = IdleRetry
    /\ chat = IdleChat
    /\ cron = IdleCron
    /\ embeddingCache = <<>>
    /\ calls = [c \in CallIds |-> IdleCall]
    /\ dateNow = 0
    /\ documents = <<>>
    /\ syncLogs = [s \in SyncIds |-> NoLog]
    /\ run = [s \in SyncIds |-> IdleRun]
    /\ stream = [s \in SyncIds |-> <<>>]
    /\ clock = 1
    /\ faults = MaxFaults
    /\ last = NoOp
    /\ errorEvents = <<>>
    /\ progressEvents = <<>>

\* A thrown error inside the try block of performSync: control moves to the
\* catch clause, which awaits syncLogRepo.fail.
Throw(s, message) ==
    /\ faults > 0
    /\ faults' = faults - 1
    /\ run' = [run EXCEPT ![s].pc = "catch", ![s].error = message]
    /\ last' = Op("throw", s, message)
    /\ UNCHANGED <<documents, syncLogs, stream, clock, errorEvents, progressEvents, queryVars>>

\* syncGmail: create the SyncLog row, answer the request, and start
\* performSync, which reports the fetching phase before its first await.
\* One sync runs at a time.
syncGmail(s, syncType) ==
    /\ run[s].pc = "idle"
    /\ \A t \in SyncIds : t < s => run[t].pc # "idle"
    /\ \A t \in SyncIds : ~Active(t)
    /\ syncLogs' = [syncLogs EXCEPT ![s] = createLog]
    /\ stream' = [stream EXCEPT ![s] = Emit(@, "fetching")]
    /\ run' = [run EXCEPT ![s].pc = "fetching", ![s].syncType = syncType]
    /\ last' = Op("syncGmail", s, syncType)
    /\ UNCHANGED <<documents, clock, faults, errorEvents, progressEvents, queryVars>>

\* An incremental run read its cursor with getLastSuccessfulSync; fetchAll /
\* fetchNew returned; normalizeBatch; the normalizing and storing phases are
\* reported; the storing loop reaches its first lookup.
Fetch(s, lo, hi) ==
    /\ run[s].pc = "fetching"
    /\ LET rawMessages == FetchRange(lo, hi)
           normalizedDocs == normalizeBatch(rawMessages)
       IN  /\ lo <= hi + 1
           /\ (hi < lo) => lo = 1
           /\ run' = [run EXCEPT ![s].pc = IF normalizedDocs = <<>> THEN "complete" ELSE "lookup",
                                 ![s].rawMessages = rawMessages,
                                 ![s].normalizedDocs = normalizedDocs,
                                 ![s].i = 1,
                                 ![s].stored = (normalizedDocs = <<>>),
                                 ![s].since = IF run[s].syncType = "incremental"
                                              THEN since(syncLogs) ELSE NULL,
                                 ![s].snapshot = documents]
    /\ stream' = [stream EXCEPT ![s] = EmitAll(@, <<"normalizing", "storing">>)]
    /\ last' = Op("fetch", s, "ok")
    /\ UNCHANGED <<documents, syncLogs, clock, faults, errorEvents, progressEvents, queryVars>>

FetchThrows(s) ==
    /\ run[s].pc = "fetching"
    /\ Throw(s, "fetch failed")

\* The end of one iteration of the storing loop: the next document, or the
\* await of syncLogRepo.complete after the last one.
NextDoc(r) ==
    IF r.i = Len(r.normalizedDocs)
    THEN [r EXCEPT !.pc = "complete", !.stored = TRUE]
    ELSE [r EXCEPT !.pc = "lookup", !.i = r.i + 1]

\* await documentRepo.findByDocumentId(doc.documentId)
Lookup(s) ==
    /\ run[s].pc = "lookup"
    /\ LET doc == run[s].normalizedDocs[run[s].i]
           existing == findByDocumentId(documents, doc.documentId)
       IN  /\ run' = [run EXCEPT ![s] =
                        IF existing # {}
                        THEN NextDoc([@ EXCEPT !.documentsSkipped = @ + 1])
                        ELSE [@ EXCEPT !.pc = "insert"]]
           /\ last' = Op("lookup", s, IF existing # {} THEN "skip" ELSE "miss")
    /\ UNCHANGED <<documents, syncLogs, stream, clock, faults, errorEvents, progressEvents, queryVars>>

\* findByDocumentId throws: the per-document catch counts the document as
\* failed and the loop goes on.
LookupThrows(s) ==
    /\ run[s].pc = "lookup"
    /\ faults > 0
    /\ faults' = faults - 1
    /\ LET doc == run[s].normalizedDocs[run[s].i]
       IN  run' = [run EXCEPT ![s] =
                     NextDoc([@ EXCEPT !.documentsFailed = @ + 1,
                                       !.lookupFailed = @ \cup {doc.documentId}])]
    /\ stream' = [stream EXCEPT ![s] = Emit(@, "storing")]
    /\ last' = Op("lookup", s, "throw")
    /\ UNCHANGED <<documents, syncLogs, clock, errorEvents, progressEvents, queryVars>>

\* await documentRepo.create(dbDocument); a unique violation is rethrown
\* by create and counted as failed like any other error.
Insert(s) ==
    /\ run[s].pc = "insert"
    /\ LET doc == run[s].normalizedDocs[run[s].i]
           r == create(documents, [document_id |-> doc.documentId, content |-> doc.content])
       IN  /\ documents' = r.table
           /\ run' = [run EXCEPT ![s] =
                        IF r.code = "ok"
                        THEN NextDoc([@ EXCEPT !.documentsAdded = @ + 1])
                        ELSE NextDoc([@ EXCEPT !.documentsFailed = @ + 1,
                                               !.insertFailed = @ \cup {doc.documentId}])]
           /\ last' = Op("insert", s, r.code)
    /\ stream' = [stream EXCEPT ![s] = Emit(@, "storing")]
    /\ UNCHANGED <<syncLogs, clock, faults, errorEvents, progressEvents, queryVars>>

InsertThrows(s) ==
    /\ run[s].pc = "insert"
    /\ faults > 0
    /\ faults' = faults - 1
    /\ LET doc == run[s].normalizedDocs[run[s].i]
       IN  run' = [run EXCEPT ![s] =
                     NextDoc([@ EXCEPT !.documentsFailed = @ + 1,
                                       !.insertFailed = @ \cup {doc.documentId}])]
    /\ stream' = [stream EXCEPT ![s] = Emit(@, "storing")]
    /\ last' = Op("insert", s, "throw")
    /\ UNCHANGED <<documents, syncLogs, clock, errorEvents, progressEvents, queryVars>>

\* await syncLogRepo.complete(syncLogId, {status: "success", ...,
\* lastSyncTimestamp: new Date()}); then the embedding_start phase is
\* reported and processAllPendingEmbeddings starts.  The UPDATE runs at the
\* time of the call or later.
Complete(s, delay) ==
    /\ run[s].pc = "complete"
    /\ syncLogs' = [syncLogs EXCEPT ![s] =
                      complete("success", Len(run[s].rawMessages),
                               run[s].documentsAdded, clock, "", clock + delay)]
    /\ clock' = clock + delay + 1
    /\ stream' = [stream EXCEPT ![s] = Emit(@, "embedding_start")]
    /\ run' = [run EXCEPT ![s].pc = "drain_stats", ![s].totalProcessed = 0]
    /\ last' = Op("complete", s, "ok")
    /\ UNCHANGED <<documents, faults, errorEvents, progressEvents, queryVars>>

CompleteThrows(s) ==
    /\ run[s].pc = "complete"
    /\ Throw(s, "sync log update failed")

(***************************************************************************)
(* EmbeddingPipeline.processAllPendingEmbeddings(syncId), called by        *)
(* performSync; one action per await.                                      *)
(***************************************************************************)
\* processAllPendingEmbeddings returned to performSync, which reports the
\* completion of the sync.
DrainReturns(r) == [r EXCEPT !.pc = "done", !.batch = <<>>]

\* Math.floor((totalProcessed / initialPending) * 100)
Percent(totalProcessed, initialPending) == (totalProcessed * 100) \div initialPending

\* The progress of the sync-scoped event of a chunk:
\* Math.min(99, Math.floor((totalProcessed / initialPending) * 100))
progressPercent(totalProcessed, initialPending) ==
    Min(99, Percent(totalProcessed, initialPending))

\* socketServer.emitSyncProgress("gmail", {syncId, phase: "embedding",
\* progress, documentsEmbedded, totalDocuments}) as the drain calls it.
emitSyncProgress(syncId, progress, documentsEmbedded, totalDocuments) ==
    [event |-> "sync:gmail:progress", syncId |-> syncId, progress |-> progress,
     processed |-> documentsEmbedded, total |-> totalDocuments]

\* socketServer.emitEmbeddingProgress({phase: "processing", processed, total,
\* progress: Math.floor((totalProcessed / initialPending) * 100)})
emitEmbeddingProgress(totalProcessed, initialPending) ==
    [event |-> "embeddings:progress", syncId |-> NULL,
     progress |-> Percent(totalProcessed, initialPending),
     processed |-> totalProcessed, total |-> initialPending]

\* The test that ends the drain loop.
LoopEndsOnShortBatch(docs) == Len(docs) < BatchSize

LoopEnds(docs) == Len(docs) = 0

\* await embeddingRepo.getEmbeddingStats(): nothing pending returns at once,
\* otherwise the first embedding event is sent and the loop starts.
DrainStats(s) ==
    /\ run[s].pc = "drain_stats"
    /\ LET initialPending == pending_count(documents)
       IN  IF initialPending = 0
           THEN /\ run' = [run EXCEPT ![s] = DrainReturns(@)]
                /\ stream' = [stream EXCEPT ![s] = Emit(@, "complete")]
                /\ last' = Op("drain_return", s, "nothing pending")
                /\ progressEvents' = progressEvents
           ELSE /\ run' = [run EXCEPT ![s].pc = "drain_fetch",
                                      ![s].initialPending = initialPending]
                /\ stream' = [stream EXCEPT ![s] = Emit(@, DrainProgressPhase)]
                /\ last' = Op("drain_stats", s, "pending")
                /\ progressEvents' = Append(progressEvents,
                                             emitSyncProgress(s, 0, 0, initialPending))
    /\ UNCHANGED <<documents, syncLogs, clock, faults, errorEvents, queryVars>>

DrainStatsThrows(s) ==
    /\ run[s].pc = "drain_stats"
    /\ Throw(s, "embedding stats failed")

\* await embeddingRepo.getDocumentsNeedingEmbedding(batchSize) at the top of
\* the loop: an empty result leaves the loop, for the cost log when
\* something was processed and for the return otherwise.
DrainFetch(s) ==
    /\ run[s].pc = "drain_fetch"
    /\ LET docs == getDocumentsNeedingEmbedding(documents, BatchSize)
       IN  IF LoopEnds(docs)
           THEN IF run[s].totalProcessed > 0
                THEN /\ run' = [run EXCEPT ![s].pc = "drain_cost", ![s].batch = <<>>]
                     /\ stream' = stream
                     /\ last' = Op("drain_fetch", s, "empty")
                ELSE /\ run' = [run EXCEPT ![s] = DrainReturns(@)]
                     /\ stream' = [stream EXCEPT ![s] = Emit(@, "complete")]
                     /\ last' = Op("drain_return", s, "nothing embedded")
           ELSE /\ run' = [run EXCEPT ![s].pc = "drain_chunk", ![s].batch = docs, ![s].ci = 1]
                /\ stream' = stream
                /\ last' = Op("drain_fetch", s, "batch")
    /\ UNCHANGED <<documents, syncLogs, clock, faults, errorEvents, progressEvents, queryVars>>

DrainFetchThrows(s) ==
    /\ run[s].pc = "drain_fetch"
    /\ Throw(s, "fetching pending documents failed")

\* The chunk of the batch that starts at offset ci.
Chunk(r) == SubSeq(r.batch, r.ci, Min(r.ci + BatchChunkSize - 1, Len(r.batch)))

\* After a chunk, successful or not: the next chunk of the batch, or the
\* top of the loop.
NextChunkLeavesBatch(r) == [r EXCEPT !.pc = "drain_fetch", !.batch = <<>>, !.ci = 1]

NextChunk(r) ==
    IF r.ci + BatchChunkSize > Len(r.batch)
    THEN [r EXCEPT !.pc = "drain_fetch", !.batch = <<>>, !.ci = 1]
    ELSE [r EXCEPT !.ci = r.ci + BatchChunkSize]

ChunkIds(chunk) == { chunk[k].document_id : k \in 1..Len(chunk) }

\* updates = batch.map((doc, idx) => ({documentId, embedding:
\* embeddings[idx].embedding, tokens})): embeddings[idx] is undefined past the
\* end of embeddings, and reading its property throws (no updates, <<>>).
ChunkUpdatesOverEmbeddings(chunk, embeddings) ==
    [k \in 1..Min(Len(chunk), Len(embeddings)) |->
        [documentId |-> chunk[k].document_id,
         embedding |-> embeddings[k].embedding,
         tokens |-> embeddings[k].tokens]]

ChunkUpdates(chunk, embeddings) ==
    IF Len(embeddings) < Len(chunk) THEN <<>>
    ELSE [k \in 1..Len(chunk) |->
             [documentId |-> chunk[k].document_id,
              embedding |-> embeddings[k].embedding,
              tokens |-> embeddings[k].tokens]]

\* One chunk: embedBatch, then batchUpdateEmbeddings in one transaction.
\* failAt names the statement of the transaction that throws (0: none).
DrainChunk(s, failAt) ==
    /\ run[s].pc = "drain_chunk"
    /\ LET chunk == Chunk(run[s])
           texts == [k \in 1..Len(chunk) |-> prepareText(chunk[k].content)]
           embeddings == embedBatch(texts)
           updates == ChunkUpdates(chunk, embeddings)
       IN  /\ failAt \in 0..(Len(chunk) + 1)
           /\ IF failAt = 0 THEN faults' = faults ELSE faults > 0 /\ faults' = faults - 1
           /\ IF updates = <<>>
              THEN \* the chunk throws before the update
                   /\ documents' = documents
                   /\ run' = [run EXCEPT ![s] = NextChunk(@)]
                   /\ stream' = stream
                   /\ progressEvents' = progressEvents
                   /\ last' = [Op("chunk", s, "embed_fail") EXCEPT
                                  !.ids = ChunkIds(chunk), !.before = documents]
              ELSE LET r == batchUpdateEmbeddings(documents, updates, failAt)
                   IN  /\ documents' = r.table
                       /\ run' = [run EXCEPT ![s] =
                                    IF r.ok
                                    THEN NextChunk([@ EXCEPT !.totalProcessed = @ + Len(updates)])
                                    ELSE NextChunk(@)]
                       /\ stream' = IF r.ok
                                    THEN [stream EXCEPT ![s] = Emit(@, DrainProgressPhase)]
                                    ELSE stream
                       /\ progressEvents' =
                              IF r.ok
                              THEN LET totalProcessed == run[s].totalProcessed + Len(updates)
                                   IN  progressEvents \o
                                       <<emitSyncProgress(s, progressPercent(totalProcessed, run[s].initialPending),
                                                          totalProcessed, run[s].initialPending),
                                         emitEmbeddingProgress(totalProcessed, run[s].initialPending)>>
                              ELSE progressEvents
                       /\ last' = [Op("chunk", s, IF r.ok THEN "ok" ELSE "update_fail") EXCEPT
                                      !.ids = ChunkIds(chunk), !.failAt = failAt,
                                      !.before = documents]
    /\ UNCHANGED <<syncLogs, clock, errorEvents, queryVars>>

\* embedBatch throws (provider error): the chunk is logged and skipped.
DrainChunkEmbedThrows(s) ==
    /\ run[s].pc = "drain_chunk"
    /\ faults > 0
    /\ faults' = faults - 1
    /\ run' = [run EXCEPT ![s] = NextChunk(@)]
    /\ last' = [Op("chunk", s, "embed_fail") EXCEPT
                   !.ids = ChunkIds(Chunk(run[s])), !.before = documents]
    /\ UNCHANGED <<documents, syncLogs, stream, clock, errorEvents, progressEvents, queryVars>>

\* await embeddingRepo.logEmbeddingCost(...), then the return.
DrainCost(s) ==
    /\ run[s].pc = "drain_cost"
    /\ run' = [run EXCEPT ![s] = DrainReturns(@)]
    /\ stream' = [stream EXCEPT ![s] = Emit(@, "complete")]
    /\ last' = Op("drain_return", s, "embedded")
    /\ UNCHANGED <<documents, syncLogs, clock, faults, errorEvents, progressEvents, queryVars>>

DrainCostThrows(s) ==
    /\ run[s].pc = "drain_cost"
    /\ Throw(s, "cost log failed")

\* The catch clause of performSync: await syncLogRepo.fail(syncLogId,
\* message), then the error event.
Catch(s) ==
    /\ run[s].pc = "catch"
    /\ syncLogs' = [syncLogs EXCEPT ![s] = fail(run[s].error, clock)]
    /\ clock' = clock + 1
    /\ stream' = [stream EXCEPT ![s] = Emit(@, "error")]
    /\ run' = [run EXCEPT ![s].pc = "failed", ![s].batch = <<>>]
    /\ errorEvents' = Append(errorEvents,
                              emitSyncError("gmail", [syncId |-> s, message |-> run[s].error,
                                                      code |-> "SYNC_FAILED"]))
    /\ last' = Op("catch", s, run[s].error)
    /\ UNCHANGED <<documents, faults, progressEvents, queryVars>>

Next ==
    \/ \E s \in SyncIds, syncType \in {"full", "incremental"} : syncGmail(s, syncType)
    \/ \E s \in SyncIds, lo \in Msgs, hi \in 0..MaxMsgs : Fetch(s, lo, hi)
    \/ \E s \in SyncIds : FetchThrows(s)
    \/ \E s \in SyncIds : Lookup(s)
    \/ \E s \in SyncIds : LookupThrows(s)
    \/ \E s \in SyncIds : Insert(s)
    \/ \E s \in SyncIds : InsertThrows(s)
    \/ \E s \in SyncIds, delay \in 0..1 : Complete(s, delay)
    \/ \E s \in SyncIds : CompleteThrows(s)
    \/ \E s \in SyncIds : DrainStats(s)
    \/ \E s \in SyncIds : DrainStatsThrows(s)
    \/ \E s \in SyncIds : DrainFetch(s)
    \/ \E s \in SyncIds : DrainFetchThrows(s)
    \/ \E s \in SyncIds, failAt \in 0..(BatchChunkSize + 1) : DrainChunk(s, failAt)
    \/ \E s \in SyncIds : DrainChunkEmbedThrows(s)
    \/ \E s \in SyncIds : DrainCost(s)
    \/ \E s \in SyncIds : DrainCostThrows(s)
    \/ \E s \in SyncIds : Catch(s)

Spec == Init /\ [][Next]_vars

TypeOK == faults \in 0..MaxFaults

(***************************************************************************)
(* Properties of the ingestion run.                                        *)
(***************************************************************************)
ObservedIds(s) ==
    { run[s].normalizedDocs[k].documentId : k \in 1..Len(run[s].normalizedDocs) }

PersistedIds == { documents[k].document_id : k \in 1..Len(documents) }

\* The document ids observed by the syncs that have finished storing.
AllObserved == UNION { ObservedIds(s) : s \in { t \in SyncIds : run[t].stored } }

NoSyncStoring == \A s \in SyncIds : run[s].pc \notin {"fetching", "lookup", "insert"}

FailedIds(s) == run[s].lookupFailed \cup run[s].insertFailed

\* Observed ids whose lookup or insert threw in every sync that observed them.
NeverStored ==
    { d \in AllObserved :
        \A s \in SyncIds : (run[s].stored /\ d \in ObservedIds(s)) => d \in FailedIds(s) }

\* C1 as stated: once the syncs have finished storing, every observed
\* document_id is persisted exactly once and nothing else is persisted, so
\* the number of persisted documents equals the number of observed ids.
C1_ObservedAllPersisted ==
    NoSyncStoring =>
        /\ \A d \in AllObserved : Count(documents, d) = 1
        /\ Len(documents) = Cardinality(AllObserved)

\* C1 amended: no document_id is ever persisted twice; a sync that has
\* finished storing has persisted every document it observed except those
\* whose lookup or insert threw (counted as failed); once the syncs have
\* finished storing the persisted ids are the observed ids minus those that
\* failed in every sync that observed them.
C1_IdempotentIngestion ==
    /\ \A d \in PersistedIds : Count(documents, d) = 1
    /\ \A s \in SyncIds : run[s].stored =>
          \A d \in ObservedIds(s) \ FailedIds(s) : Count(documents, d) = 1
    /\ NoSyncStoring =>
          /\ PersistedIds = AllObserved \ NeverStored
          /\ Len(documents) = Cardinality(AllObserved) - Cardinality(NeverStored)

\* Two finished syncs observed overlapping ranges, the second one skipped a
\* document and added another.
C1_Witness ==
    /\ NoSyncStoring
    /\ \E s, t \in SyncIds :
          /\ s < t /\ run[s].stored /\ run[t].stored
          /\ ObservedIds(s) \cap ObservedIds(t) # {}
          /\ run[t].documentsSkipped > 0 /\ run[t].documentsAdded > 0
          /\ run[s].documentsFailed > 0

\* A sync whose normalized documents were all persisted before it stored.
IsRerun(s) ==
    /\ run[s].stored
    /\ run[s].normalizedDocs # <<>>
    /\ \A d \in ObservedIds(s) : Count(run[s].snapshot, d) = 1
    /\ \A t \in SyncIds : t > s => run[t].pc = "idle"

\* C2 as stated: a re-run reports stored = 0 and skipped = number of
\* normalized documents and leaves every persisted document unchanged.
C2_RerunUnchanged ==
    \A s \in SyncIds : IsRerun(s) =>
        /\ run[s].documentsAdded = 0
        /\ run[s].documentsSkipped = Len(run[s].normalizedDocs)
        /\ documents = run[s].snapshot

\* C2 amended: a re-run stores nothing; it skips every normalized document
\* except those whose lookup threw, which it counts as failed; its storing
\* phase leaves every persisted document and the document count unchanged;
\* the drain that follows changes nothing but the embedding and
\* needs_embedding of documents that were still pending.
C2_RerunIdempotent ==
    \A s \in SyncIds : IsRerun(s) =>
        /\ run[s].documentsAdded = 0
        /\ run[s].insertFailed = {}
        /\ run[s].documentsFailed = Cardinality(run[s].lookupFailed)
        /\ run[s].documentsSkipped = Len(run[s].normalizedDocs) - run[s].documentsFailed
        /\ Len(documents) = Len(run[s].snapshot)
        /\ run[s].pc \in {"complete", "drain_stats"} => documents = run[s].snapshot
        /\ \A k \in 1..Len(documents) :
              \/ documents[k] = run[s].snapshot[k]
              \/ /\ documents[k].document_id = run[s].snapshot[k].document_id
                 /\ documents[k].content = run[s].snapshot[k].content
                 /\ run[s].snapshot[k].needs_embedding
                 /\ run[s].snapshot[k].content # EmptyText
                 /\ ~documents[k].needs_embedding
                 /\ documents[k].embedding = documents[k].content

\* A finished re-run of two or more documents, all skipped.
C2_Witness ==
    \E s \in SyncIds :
        /\ IsRerun(s)
        /\ run[s].pc = "done"
        /\ run[s].documentsSkipped >= 2
        /\ run[s].documentsSkipped = Len(run[s].normalizedDocs)

\* C3: when processAllPendingEmbeddings returns successfully, every
\* persisted document with non-empty content has the vector of its content
\* and needs_embedding = false.
C3_EmbeddingCoverage ==
    last.op = "drain_return" =>
        \A k \in 1..Len(documents) :
            documents[k].content # EmptyText =>
                /\ documents[k].embedding = documents[k].content
                /\ ~documents[k].needs_embedding

\* The drain returned after embedding, with a chunk having failed on the
\* way, and the table holds documents with and without content.
C3_Witness ==
    /\ last.op = "drain_return" /\ last.outcome = "embedded"
    /\ faults < MaxFaults
    /\ \E k \in 1..Len(documents) : documents[k].content # EmptyText
    /\ \E k \in 1..Len(documents) :
          documents[k].content = EmptyText /\ documents[k].embedding = NULL

\* C4: a SyncLog row that has reached success or failed is never changed.
C4_SyncLogTerminal ==
    [][\A s \in SyncIds :
          syncLogs[s].status \in {"success", "failed"} => syncLogs'[s] = syncLogs[s]]_vars

PhaseRank(phase) ==
    CASE phase = "fetching" -> 1
      [] phase = "normalizing" -> 2
      [] phase = "storing" -> 3
      [] phase = "embedding_start" -> 4
      [] phase = "embedding" -> 5
      [] phase = "complete" -> 6
      [] OTHER -> 6

RowNow(d) == documents[CHOOSE k \in RowsOf(documents, d) : TRUE]
RowBefore(d) == last.before[CHOOSE k \in RowsOf(last.before, d) : TRUE]

\* C6: right after batchUpdateEmbeddings of a chunk, a failed update has
\* changed no document of the chunk, and a successful one has given every
\* document of the chunk its vector and needs_embedding = false.
C6_ChunkAtomic ==
    last.op = "chunk" =>
        /\ last.outcome = "update_fail" =>
              \A d \in last.ids : RowNow(d) = RowBefore(d)
        /\ last.outcome = "ok" =>
              \A d \in last.ids :
                  /\ RowNow(d).embedding = RowNow(d).content
                  /\ ~RowNow(d).needs_embedding

\* The second update of a two-document chunk threw.
C6_Witness ==
    /\ last.op = "chunk"
    /\ last.outcome = "update_fail"
    /\ last.failAt = 2
    /\ Cardinality(last.ids) = 2

(***************************************************************************)
(* VectorSearchService: the query-embedding cache and embedQuery.          *)
(***************************************************************************)
\* "hello", "Hello", " Hello ", "bye" and "now"
Queries == { [word |-> "hello", upper |-> FALSE, padded |-> FALSE],
             [word |-> "hello", upper |-> TRUE, padded |-> FALSE],
             [word |-> "hello", upper |-> TRUE, padded |-> TRUE],
             [word |-> "bye", upper |-> FALSE, padded |-> FALSE],
             [word |-> "now", upper |-> FALSE, padded |-> FALSE] }

\* String.prototype.trim and toLowerCase
trim(query) == [query EXCEPT !.padded = FALSE]

toLowerCase(query) == [query EXCEPT !.upper = FALSE]

\* _getCacheKey: query.trim().toLowerCase()
_getCacheKey(query) == toLowerCase(trim(query))

\* embeddingModel.embedContent: the vector the provider computes for a text.
embedContent(text) == [values |-> text]

\* Map.get: the positions of the entry of a key (at most one).
CachePos(cache, key) == { k \in 1..Len(cache) : cache[k].key = key }

\* Map.delete
CacheDelete(cache, key) ==
    LET keep == { k \in 1..Len(cache) : cache[k].key # key }
        idx(n) == CHOOSE k \in keep : Cardinality({ j \in keep : j < k }) = n - 1
    IN  [n \in 1..Cardinality(keep) |-> cache[idx(n)]]

\* _getFromCache: the embedding of a live entry; an expired entry is deleted
\* and null returned.
_getFromCache(cache, query, t) ==
    LET key == _getCacheKey(query)
        pos == CachePos(cache, key)
    IN  IF pos = {} THEN [embedding |-> NoVector, cache |-> cache]
        ELSE LET cached == cache[CHOOSE k \in pos : TRUE]
             IN  IF t - cached.timestamp < cacheTTL
                 THEN [embedding |-> cached.embedding, cache |-> cache]
                 ELSE [embedding |-> NoVector, cache |-> CacheDelete(cache, key)]

\* _setCache: at capacity the first key of the map is deleted; then Map.set,
\* which replaces the value of a present key in place and appends a new key.
_setCacheEvictsNewest(cache, query, embedding, t) ==
    LET key == _getCacheKey(query)
        room == IF Len(cache) >= cacheMaxSize THEN SubSeq(cache, 1, Len(cache) - 1) ELSE cache
        entry == [key |-> key, embedding |-> embedding, timestamp |-> t]
        pos == CachePos(room, key)
    IN  IF pos = {} THEN Append(room, entry)
        ELSE [room EXCEPT ![CHOOSE k \in pos : TRUE] = entry]

_setCache(cache, query, embedding, t) ==
    LET key == _getCacheKey(query)
        room == IF Len(cache) >= cacheMaxSize THEN Tail(cache) ELSE cache
        entry == [key |-> key, embedding |-> embedding, timestamp |-> t]
        pos == CachePos(room, key)
    IN  IF pos = {} THEN Append(room, entry)
        ELSE [room EXCEPT ![CHOOSE k \in pos : TRUE] = entry]

\* embedQuery up to its await: a cache hit returns at once, a miss sends
\* query.trim() to the provider.
embedQuery(c, query) ==
    /\ calls[c].pc = "idle"
    /\ \A d \in CallIds : d < c => calls[d].pc # "idle"
    /\ LET r == _getFromCache(embeddingCache, query, dateNow)
       IN  /\ embeddingCache' = r.cache
           /\ calls' = [calls EXCEPT ![c] =
                          IF r.embedding # NoVector
                          THEN [pc |-> "returned", query |-> query, start |-> dateNow,
                                provider |-> FALSE, result |-> r.embedding]
                          ELSE [pc |-> "awaiting", query |-> query, start |-> dateNow,
                                provider |-> TRUE, result |-> NoVector]]
    /\ UNCHANGED <<dateNow, rag, syncVars, serviceVars>>

\* The provider answered: the embedding is cached and returned.
ProviderReturns(c) ==
    /\ calls[c].pc = "awaiting"
    /\ LET embedding == embedContent(trim(calls[c].query))
       IN  /\ embeddingCache' = _setCache(embeddingCache, calls[c].query, embedding, dateNow)
           /\ calls' = [calls EXCEPT ![c].pc = "returned", ![c].result = embedding]
    /\ UNCHANGED <<dateNow, rag, syncVars, serviceVars>>

\* The provider failed: "Failed to generate query embedding" is thrown.
ProviderThrows(c) ==
    /\ calls[c].pc = "awaiting"
    /\ calls' = [calls EXCEPT ![c].pc = "threw"]
    /\ UNCHANGED <<embeddingCache, dateNow, rag, syncVars, serviceVars>>

\* Time passes.
Tick ==
    /\ dateNow < MaxTime
    /\ dateNow' = dateNow + 1
    /\ UNCHANGED <<embeddingCache, calls, rag, syncVars, serviceVars>>

NextCache ==
    \/ \E c \in CallIds, query \in Queries : embedQuery(c, query)
    \/ \E c \in CallIds : ProviderReturns(c)
    \/ \E c \in CallIds : ProviderThrows(c)
    \/ Tick

SpecCache == Init /\ [][NextCache]_vars

\* C7: any two embedQuery calls with the same key, the later one started
\* within the TTL of the earlier one, return the same vector, and at most one
\* of them called the provider, also when they overlap.
C7_OneProviderCall ==
    \A a, b \in CallIds :
        ( /\ a # b
          /\ calls[a].pc = "returned" /\ calls[b].pc = "returned"
          /\ _getCacheKey(calls[a].query) = _getCacheKey(calls[b].query)
          /\ calls[a].start <= calls[b].start
          /\ calls[b].start - calls[a].start < cacheTTL )
        => /\ calls[a].result = calls[b].result
           /\ ~(calls[a].provider /\ calls[b].provider)

(***************************************************************************)
(* Scores are fixed-point numbers: similarities and sub-scores count       *)
(* 1/300, final scores 1/300000, weights 1/1000, boost factors 1/10 and    *)
(* content similarities 1/100.                                             *)
(***************************************************************************)
ScoreOne == 300

FinalOne == 300000

Max(a, b) == IF a > b THEN a ELSE b

\* Array.prototype.sort with (a, b) => b.key - a.key, which is stable: the
\* element at index i moves behind those with a larger key and those before
\* it with the same key.
SortDesc(seq, key) ==
    LET pos(s, k, i) == 1 + Cardinality({ j \in 1..Len(s) :
                              k[j] > k[i] \/ (k[j] = k[i] /\ j < i) })
        sorted(s, k) == [n \in 1..Len(s) |-> s[CHOOSE i \in 1..Len(s) : pos(s, k, i) = n]]
    IN  CHOOSE result \in { sorted(s, k) : s \in {seq}, k \in {key} } : TRUE

\* content.length of the contents in the index
Length(content) ==
    CASE content = "note"   -> 400
      [] content = "report" -> 101000
      [] content = "memo"   -> 100
      [] content = "archive" -> 1001000
      [] OTHER              -> 0

\* Rows of the documents table that have an embedding, as one query sees
\* them: the cosine similarity to the query, the age of the timestamp,
\* whether the content holds the whole query, one of its keywords or none,
\* and the author ("" is NULL) with the number of keywords it holds.
IndexRows ==
    { [source |-> "gmail", type |-> "email", similarity |-> 300, ageDays |-> 0,
       matches |-> "phrase", content |-> "note",
       author |-> "Ravi Kumar", keywordsInAuthor |-> 1],
      [source |-> "gmail", type |-> "email", similarity |-> 150, ageDays |-> 60,
       matches |-> "keyword", content |-> "report",
       author |-> "Meera", keywordsInAuthor |-> 0],
      [source |-> "spotify", type |-> "track", similarity |-> 150, ageDays |-> 60,
       matches |-> "keyword", content |-> "report",
       author |-> "", keywordsInAuthor |-> 0],
      [source |-> "gmail", type |-> "email", similarity |-> -300, ageDays |-> 120,
       matches |-> "keyword", content |-> "memo",
       author |-> "Ravi Kumar", keywordsInAuthor |-> 1],
      [source |-> "spotify", type |-> "track", similarity |-> 90, ageDays |-> 0,
       matches |-> "none", content |-> "note",
       author |-> "", keywordsInAuthor |-> 0] }

\* The rows with their document_id, which is unique in the table.
Stored(rows) ==
    [k \in 1..Len(rows) |->
        [document_id |-> k, source |-> rows[k].source, type |-> rows[k].type,
         similarity |-> rows[k].similarity, ageDays |-> rows[k].ageDays,
         matches |-> rows[k].matches, content |-> rows[k].content,
         author |-> rows[k].author, keywordsInAuthor |-> rows[k].keywordsInAuthor]]

(***************************************************************************)
(* VectorSearchService: search, searchWithExpansion, hybridSearch.         *)
(***************************************************************************)
\* formatResults: keyword_boost is not copied, so keywordBoost is undefined
\* (0 where the ranker reads it).
formatResults(rows) ==
    [k \in 1..Len(rows) |->
        [documentId |-> rows[k].document_id, source |-> rows[k].source,
         type |-> rows[k].type, content |-> rows[k].content,
         ageDays |-> rows[k].ageDays, matches |-> rows[k].matches,
         author |-> rows[k].author, keywordsInAuthor |-> rows[k].keywordsInAuthor,
         similarity |-> rows[k].similarity, keywordBoost |-> 0]]

\* The filters of a search: "" is an absent source, author or
\* potentialAuthor; the time range is given in ages, start the older end.
NoRange == [given |-> FALSE, startAge |-> 0, endAge |-> 0]

NoFilters == [source |-> "", author |-> "", potentialAuthor |-> "", timeRange |-> NoRange]

\* author ILIKE %pattern% on the authors of the index (NULL never matches).
ILike(author, pattern) ==
    <<author, pattern>> \in {<<"Ravi Kumar", "ravi">>, <<"Ravi Kumar", "Ravi">>,
                             <<"Meera", "meera">>}

\* timestamp >= start AND timestamp <= end
InTimeRange(row, timeRange) ==
    timeRange.given => (row.ageDays <= timeRange.startAge /\ row.ageDays >= timeRange.endAge)

SourceFilter(row, filters) == filters.source # "" => row.source = filters.source

\* author ILIKE %author%, and author ILIKE %potentialAuthor% OR metadata::text
\* ILIKE %potentialAuthor% on rows without metadata.
AuthorFilter(row, filters) ==
    /\ filters.author # "" => ILike(row.author, filters.author)
    /\ filters.potentialAuthor # "" => ILike(row.author, filters.potentialAuthor)

\* search: WHERE similarity >= minSimilarity ORDER BY similarity DESC LIMIT topK
search(index, options) ==
    LET hit(row) == /\ SourceFilter(row, options.filters)
                    /\ AuthorFilter(row, options.filters)
                    /\ InTimeRange(row, options.filters.timeRange)
                    /\ row.similarity >= options.minSimilarity
        rows == SelectSeq(index, hit)
        ordered == SortDesc(rows, [k \in 1..Len(rows) |-> rows[k].similarity])
    IN  formatResults(Take(ordered, options.topK))

\* searchWithExpansion: a second search at 0.3 when fewer than 3 rows came
searchWithExpansion(index, options) ==
    LET results == search(index, options)
    IN  IF Len(results) < 3 /\ options.minSimilarity > 90
        THEN search(index, [options EXCEPT !.minSimilarity = 90])
        ELSE results

\* hybridSearch: WHERE (similarity >= minSimilarity OR content ILIKE a
\* keyword) AND the source and time-range filters; no other filter is read.
\* ORDER BY similarity + keyword_boost DESC LIMIT topK
hybridSearch(index, options) ==
    LET keyword_boost(row) == IF row.matches # "none" THEN 30 ELSE 0
        hit(row) == /\ row.similarity >= options.minSimilarity \/ row.matches # "none"
                    /\ SourceFilter(row, options.filters)
                    /\ InTimeRange(row, options.filters.timeRange)
        rows == SelectSeq(index, hit)
        ordered == SortDesc(rows, [k \in 1..Len(rows) |->
                                     rows[k].similarity + keyword_boost(rows[k])])
    IN  formatResults(Take(ordered, options.topK))

(***************************************************************************)
(* ResultRanker.                                                           *)
(***************************************************************************)
weights == [vectorSimilarity |-> 450, recency |-> 150, keywordMatch |-> 250,
            sourceRelevance |-> 100, lengthQuality |-> 50]

\* calculateSourceScore: sourcePriority[source] || 0.5
calculateSourceScore(source) ==
    CASE source = "gmail"           -> 300
      [] source = "google_calendar" -> 285
      [] source = "spotify"         -> 240
      [] OTHER                      -> 150

recencyDecayDays == 60

\* calculateRecencyScore: exp(-days ln 2 / recencyDecayDays), clamped; the
\* ages of the index are multiples of the half-life.
calculateRecencyScore(ageDays) ==
    Max(0, Min(ScoreOne, ScoreOne \div (2 ^ (ageDays \div recencyDecayDays))))

\* calculateKeywordScore for a document without title: 0.3 for each keyword
\* in the author, 0.2 for each keyword in the content, 0.5 for the whole
\* query, divided by the number of keywords, at most 1.
calculateKeywordScore(result, keywordCount) ==
    LET inContent == CASE result.matches = "phrase"  -> keywordCount
                       [] result.matches = "keyword" -> Min(1, keywordCount)
                       [] OTHER                      -> 0
        score == 90 * result.keywordsInAuthor + 60 * inContent
                 + (IF result.matches = "phrase" THEN 150 ELSE 0)
    IN  Min(ScoreOne, IF keywordCount > 0 THEN score \div keywordCount ELSE score)

\* Math.log10 on the powers of ten
Log10(n) == CASE n = 1 -> 0 [] n = 10 -> 1 [] n = 100 -> 2 [] n = 1000 -> 3

\* calculateLengthScore
calculateLengthScore(content) ==
    LET length == Length(content)
    IN  IF length = 0 THEN 0
        ELSE IF length >= 200 /\ length <= 2000 THEN ScoreOne
        ELSE IF length < 200 THEN (ScoreOne * length) \div 200
        ELSE ScoreOne \div (1 + Log10((length - 2000) \div 1000 + 1))

\* calculateScores
calculateScores(result, keywordCount) ==
    [recency |-> calculateRecencyScore(result.ageDays),
     keyword |-> calculateKeywordScore(result, keywordCount),
     source |-> calculateSourceScore(result.source),
     length |-> calculateLengthScore(result.content)]

\* The dot product of the weights and the sub-scores.
WeightedSum(vector, recency, keyword, source, length) ==
    vector * weights.vectorSimilarity + recency * weights.recency
    + keyword * weights.keywordMatch + source * weights.sourceRelevance
    + length * weights.lengthQuality

\* calculateFinalScore: the weighted sum, clamped to [0, 1]
calculateFinalScore(scores, vectorSimilarity) ==
    Max(0, Min(FinalOne, WeightedSum(vectorSimilarity, scores.recency, scores.keyword,
                                     scores.source, scores.length)))

\* calculateContentSimilarity: the Jaccard overlap of the words of the first
\* 200 characters; different contents of the index share no word.
calculateContentSimilarity(content1, content2) ==
    IF Length(content1) = 0 \/ Length(content2) = 0 THEN 0
    ELSE IF content1 = content2 THEN 100 ELSE 0

RECURSIVE Diverse(_, _, _, _)
\* The loop of diversifyResults from candidate i on.
Diverse(results, i, diverse, similarityThreshold) ==
    IF i > Len(results) THEN diverse
    ELSE LET candidate == results[i]
             isDiverse == \A k \in 1..Len(diverse) :
                             calculateContentSimilarity(candidate.content, diverse[k].content)
                                 <= similarityThreshold
         IN  Diverse(results, i + 1,
                     IF isDiverse THEN Append(diverse, candidate) ELSE diverse,
                     similarityThreshold)

\* diversifyResults: the top result is always kept
diversifyResults(results, similarityThreshold) ==
    IF Len(results) <= 1 THEN results
    ELSE Diverse(results, 2, <<results[1]>>, similarityThreshold)

\* rank: score each result, sort by final score, diversify
rank(results, keywordCount, options) ==
    LET scoredResults ==
            [k \in 1..Len(results) |->
                LET result == results[k]
                    calculated == calculateScores(result, keywordCount)
                    scores == IF result.keywordBoost > 0
                              THEN [calculated EXCEPT !.keyword =
                                       Min(ScoreOne, @ + result.keywordBoost \div 2)]
                              ELSE calculated
                    finalScore == calculateFinalScore(scores, result.similarity)
                IN  [documentId |-> result.documentId, source |-> result.source,
                     type |-> result.type, content |-> result.content,
                     ageDays |-> result.ageDays, author |-> result.author,
                     similarity |-> result.similarity,
                     scores |-> [vector |-> result.similarity, recency |-> scores.recency,
                                 keyword |-> scores.keyword, source |-> scores.source,
                                 length |-> scores.length, final |-> finalScore],
                     finalScore |-> finalScore]]
        ranked == SortDesc(scoredResults,
                           [k \in 1..Len(scoredResults) |-> scoredResults[k].finalScore])
    IN  IF options.diversify
        THEN diversifyResults(ranked, options.diversityThreshold)
        ELSE ranked

\* boostSource: finalScore = min(1, finalScore * boostFactor) for the source
boostSourceUncapped(results, source, boostFactor) ==
    [k \in 1..Len(results) |->
        IF results[k].source = source
        THEN [results[k] EXCEPT !.finalScore = (@ * boostFactor) \div 10]
        ELSE results[k]]

boostSource(results, source, boostFactor) ==
    [k \in 1..Len(results) |->
        IF results[k].source = source
        THEN [results[k] EXCEPT !.finalScore = Min(FinalOne, (@ * boostFactor) \div 10)]
        ELSE results[k]]

\* filterByMinScore
filterByMinScore(results, minScore) ==
    LET keep(result) == result.finalScore >= minScore
    IN  SelectSeq(results, keep)

\* getTopN
getTopN(results, n) == Take(results, n)

(***************************************************************************)
(* RetrievalService.retrieve.                                              *)
(***************************************************************************)
\* searchConfig.intentBoosts[intent]; boost 0 stands for no entry.
intentBoosts(intent) ==
    CASE intent = "search_email"    -> [source |-> "gmail", boost |-> 13]
      [] intent = "search_calendar" -> [source |-> "google_calendar", boost |-> 13]
      [] intent = "search_spotify"  -> [source |-> "spotify", boost |-> 13]
      [] OTHER                      -> [source |-> "", boost |-> 0]

\* retrieve: search (hybrid from two keywords on), rank, boost the source of
\* the intent and sort again, filter by minFinalScore when given, top N.
retrieve(index, processedQuery, options) ==
    LET searchOptions == [topK |-> options.topK, minSimilarity |-> options.minSimilarity,
                          filters |-> processedQuery.filters]
        useHybrid == processedQuery.keywordCount >= 2
        intentBoost == intentBoosts(processedQuery.intent)
        boostAndSort(rankedResults) ==
            IF intentBoost.boost # 0
            THEN LET boosted == boostSource(rankedResults, intentBoost.source,
                                            intentBoost.boost)
                 IN  SortDesc(boosted, [k \in 1..Len(boosted) |-> boosted[k].finalScore])
            ELSE rankedResults
        filterAndCut(sortedResults) ==
            getTopN(IF options.minFinalScore # 0
                    THEN filterByMinScore(sortedResults, options.minFinalScore)
                    ELSE sortedResults,
                    options.topN)
        searched == { IF useHybrid
                      THEN hybridSearch(index, searchOptions)
                      ELSE searchWithExpansion(index, searchOptions) }
        ranked == { rank(searchResults, processedQuery.keywordCount,
                         [diversify |-> options.diversify,
                          diversityThreshold |-> options.diversityThreshold]) :
                    searchResults \in searched }
        sortedAgain == { boostAndSort(rankedResults) : rankedResults \in ranked }
    IN  CHOOSE finalResults \in { filterAndCut(sortedResults) :
                                    sortedResults \in sortedAgain } : TRUE

\* The options RAGPipeline.process passes to retrieveWithFallback, and the
\* relaxed options of the second attempt.
retrievalOptions(diversify) ==
    [topN |-> 10, topK |-> 20, minSimilarity |-> 120, diversify |-> diversify,
     diversityThreshold |-> 85, minFinalScore |-> 0]

relaxedOptions(options) ==
    [options EXCEPT !.topK = options.topK + 15, !.minSimilarity = 75,
                    !.minFinalScore = 45000, !.diversityThreshold = 80]

(***************************************************************************)
(* tokenCounter and ContextFormatter.                                      *)
(***************************************************************************)
maxContextTokens == 28000

NoText == [source |-> "", type |-> "", ageDays |-> 0, author |-> "", content |-> ""]

\* formatDocument for a document without title and metadata, the relevance
\* line off: the Source, Date, From (when there is an author) and Content
\* lines.
formatDocument(doc) ==
    [source |-> doc.source, type |-> doc.type, ageDays |-> doc.ageDays,
     author |-> doc.author, content |-> doc.content]

\* text.length of a rendered document
TextLength(text) ==
    LET sourceName == CASE text.source = "gmail" -> 5
                        [] text.source = "spotify" -> 7
                        [] text.source = "google_calendar" -> 15
                        [] OTHER -> 0
        authorName == CASE text.author = "Ravi Kumar" -> 10
                        [] text.author = "Meera" -> 5
                        [] OTHER -> 0
        fromLine == IF text.author # "" THEN 6 + authorName + 1 ELSE 0
    IN  (8 + sourceName + 2 + 5 + 2) + (6 + 20 + 1) + fromLine
        + (10 + Length(text.content) + 1)

\* estimateTokens: Math.ceil(text.length / 4)
estimateTokens(text) == (TextLength(text) + 3) \div 4

RECURSIVE Fit(_, _, _, _)
\* The loop of fitWithinBudget over the sorted items.
Fit(sorted, maxTokens, result, totalTokens) ==
    IF sorted = <<>> THEN result
    ELSE LET tokens == estimateTokens(Head(sorted).text)
         IN  IF totalTokens + tokens <= maxTokens
             THEN Fit(Tail(sorted), maxTokens, Append(result, Head(sorted).text),
                      totalTokens + tokens)
             ELSE Fit(Tail(sorted), maxTokens, result, totalTokens)

\* fitWithinBudget: by priority, the texts that still fit
fitWithinBudget(items, maxTokens) ==
    Fit(SortDesc(items, [k \in 1..Len(items) |-> items[k].priority]), maxTokens, <<>>, 0)

\* selectDocumentsWithinBudget: the docs whose text is among the
\* selected texts, in the order given.
selectDocumentsWithinBudget(docs, maxTokens) ==
    LET items == [k \in 1..Len(docs) |->
                    [text |-> docs[k].formattedText,
                     priority |-> docs[k].priority, document |-> docs[k]]]
        selectedTexts == fitWithinBudget(items, maxTokens)
        includes(item) == item.text \in Range(selectedTexts)
        kept == SelectSeq(items, includes)
    IN  [k \in 1..Len(kept) |-> kept[k].document]

\* A piece of the context string; a text piece remembers the document whose
\* rendering it is.
Piece(kind, n, text, of) == [kind |-> kind, n |-> n, text |-> text, of |-> of]

RECURSIVE Numbered(_, _)
\* The forEach of buildContextString from document index on.
Numbered(docs, index) ==
    IF index > Len(docs) THEN <<>>
    ELSE << Piece("marker", index, NoText, 0),
            Piece("text", 0, docs[index].formattedText, docs[index].documentId),
            Piece("separator", 0, NoText, 0) >>
         \o Numbered(docs, index + 1)

\* buildContextString
buildContextString(docs) ==
    IF Len(docs) = 0 THEN << Piece("nothing", 0, NoText, 0) >>
    ELSE << Piece("header", 0, NoText, 0) >> \o Numbered(docs, 1)
         \o << Piece("footer", Len(docs), NoText, 0) >>

\* formatEmptyContext: "No relevant information found in your personal data
\* for this query.", where buildContextString of no document leaves out the
\* last three words.
formatEmptyContext ==
    [contextString |-> << Piece("nothing for this query", 0, NoText, 0) >>,
     documents |-> <<>>,
     metadata |-> [totalDocuments |-> 0, selectedDocuments |-> 0]]

\* format: priority = finalScore || similarity || 0
format(retrievedDocs) ==
    IF Len(retrievedDocs) = 0
    THEN formatEmptyContext
    ELSE LET documentsWithPriority ==
                 [k \in 1..Len(retrievedDocs) |->
                     LET doc == retrievedDocs[k]
                     IN  [documentId |-> doc.documentId, source |-> doc.source,
                          finalScore |-> doc.finalScore,
                          priority |-> IF doc.finalScore # 0 THEN doc.finalScore
                                       ELSE doc.similarity * 1000,
                          formattedText |-> formatDocument(doc)]]
             selectedDocs == selectDocumentsWithinBudget(documentsWithPriority,
                                                         maxContextTokens)
         IN  CHOOSE formatted \in
                 { [contextString |-> buildContextString(selected),
                    documents |-> selected,
                    metadata |-> [totalDocuments |-> Len(retrievedDocs),
                                  selectedDocuments |-> Len(selected)]] :
                   selected \in {selectedDocs} } : TRUE

\* formatForCitation
formatForCitationZeroBased(docs) ==
    [k \in 1..Len(docs) |->
        [id |-> k - 1, documentId |-> docs[k].documentId, source |-> docs[k].source]]

formatForCitation(docs) ==
    [k \in 1..Len(docs) |->
        [id |-> k, documentId |-> docs[k].documentId, source |-> docs[k].source]]

(***************************************************************************)
(* RAGPipeline.process, one action per await.                              *)
(***************************************************************************)
Intents == {"search_email", "search_spotify", "general_search"}

\* The index as the query finds it.
Indexes == UNION { [1..n -> IndexRows] : n \in 0..MaxDocs }

\* buildFilters on the queries asked: no filter; source, person and time
\* range ("emails from ravi ... last month").
Filters ==
    { NoFilters,
      [source |-> "gmail", author |-> "ravi", potentialAuthor |-> "",
       timeRange |-> [given |-> TRUE, startAge |-> 60, endAge |-> 0]] }

\* process(userQuery, options): the query is valid, retrieveWithFallback is
\* called.  The processed query has an intent, one or two keywords and the
\* filters built from it.
process(intent, keywordCount, filters, diversify, rows) ==
    /\ rag.pc = "idle"
    /\ rag' = [IdleRag EXCEPT !.pc = "retrieve", !.intent = intent,
                              !.keywordCount = keywordCount, !.diversify = diversify,
                              !.filters = filters,
                              !.index = Stored(rows)]
    /\ UNCHANGED <<cacheVars, syncVars, serviceVars>>

\* retrieveWithFallback: the first retrieve; fewer than minResults (3)
\* results lead to the relaxed attempt.
Retrieve ==
    /\ rag.pc = "retrieve"
    /\ LET results == retrieve(rag.index, rag, retrievalOptions(rag.diversify))
       IN  rag' = [rag EXCEPT !.results = results,
                              !.pc = IF Len(results) < 3 THEN "fallback" ELSE "format"]
    /\ UNCHANGED <<cacheVars, syncVars, serviceVars>>

\* The relaxed attempt, whose results are taken when they are more.
RetrieveRelaxed ==
    /\ rag.pc = "fallback"
    /\ LET relaxed == retrieve(rag.index, rag, relaxedOptions(retrievalOptions(rag.diversify)))
       IN  rag' = [rag EXCEPT !.results = IF Len(relaxed) > Len(@) THEN relaxed ELSE @,
                              !.pc = "format"]
    /\ UNCHANGED <<cacheVars, syncVars, serviceVars>>

\* After the retrieval: format the context, build the prompt, the citations
\* from formattedContext.documents, and return.
FormatContext ==
    /\ rag.pc = "format"
    /\ LET formattedContext == format(rag.results)
       IN  rag' = [rag EXCEPT !.contextString = formattedContext.contextString,
                              !.documents = formattedContext.documents,
                              !.citations = formatForCitation(formattedContext.documents),
                              !.pc = "done"]
    /\ UNCHANGED <<cacheVars, syncVars, serviceVars>>

NextRag ==
    \/ \E intent \in Intents, keywordCount \in 1..2, filters \in Filters,
          diversify \in BOOLEAN, rows \in Indexes :
           process(intent, keywordCount, filters, diversify, rows)
    \/ Retrieve
    \/ RetrieveRelaxed
    \/ FormatContext

SpecRag == Init /\ [][NextRag]_vars

\* The estimated tokens of the rendered texts of the selected documents.
SelectedTokens ==
    LET RECURSIVE Sum(_)
        Sum(k) == IF k = 0 THEN 0
                  ELSE estimateTokens(rag.documents[k].formattedText) + Sum(k - 1)
    IN  Sum(Len(rag.documents))

\* C8: the estimated tokens of the rendered texts of the selected documents
\* sum to at most the context budget, also when several documents render to
\* the same text.
C8_ContextBudget == rag.pc = "done" => SelectedTokens <= maxContextTokens

\* The positions of the [Document N] markers in the context string, and the
\* citations with a given id.
Markers == { k \in 1..Len(rag.contextString) : rag.contextString[k].kind = "marker" }

CitationsOf(n) == { c \in 1..Len(rag.citations) : rag.citations[c].id = n }

\* C9: every [Document N] marker of the context string has exactly one
\* citation with id N, which names the document rendered after the marker,
\* and every citation has its marker.
C9_CitationConsistency ==
    rag.pc = "done" =>
        /\ \A k \in Markers :
               /\ Cardinality(CitationsOf(rag.contextString[k].n)) = 1
               /\ \A c \in CitationsOf(rag.contextString[k].n) :
                      rag.citations[c].documentId = rag.contextString[k + 1].of
        /\ \A c \in 1..Len(rag.citations) :
               \E k \in Markers : rag.contextString[k].n = rag.citations[c].id

\* A result with several citations in which the budget left a retrieved
\* document out, so that the numbering is not that of the retrieval.
C9_Witness ==
    /\ rag.pc = "done"
    /\ Len(rag.citations) >= 2
    /\ Len(rag.documents) < Len(rag.results)
    /\ Cardinality(Markers) = Len(rag.citations)

\* The weighted sum of the sub-scores a result reports.
ReportedSum(result) ==
    WeightedSum(result.scores.vector, result.scores.recency, result.scores.keyword,
                result.scores.source, result.scores.length)

Retrieved == rag.pc \in {"fallback", "format", "done"}

Boosted(result) == result.source = intentBoosts(rag.intent).source

\* C10 as stated: after ranking and the intent boost every final score is in
\* [0, 1] and equals the weighted sum of the reported sub-scores.
C10_FinalIsWeightedSum ==
    Retrieved =>
        \A k \in 1..Len(rag.results) :
            /\ 0 <= rag.results[k].finalScore /\ rag.results[k].finalScore <= FinalOne
            /\ rag.results[k].finalScore = ReportedSum(rag.results[k])

\* C10: after ranking and the intent boost every final score is in [0, 1];
\* it equals the weighted sum of the reported sub-scores clamped to [0, 1],
\* and for a document of the source the intent boosts that value times the
\* boost (1.3), capped at 1.
C10_FinalScore ==
    Retrieved =>
        \A k \in 1..Len(rag.results) :
            LET result == rag.results[k]
                clamped == Max(0, Min(FinalOne, ReportedSum(result)))
            IN  /\ 0 <= result.finalScore /\ result.finalScore <= FinalOne
                /\ result.finalScore = IF Boosted(result)
                                       THEN Min(FinalOne, (clamped * 13) \div 10)
                                       ELSE clamped

\* Results with a boosted document whose score left the weighted sum, one
\* that the cap holds at 1, and one that is not boosted.
C10_Witness ==
    /\ Retrieved
    /\ \E k \in 1..Len(rag.results) :
           /\ Boosted(rag.results[k])
           /\ rag.results[k].finalScore > ReportedSum(rag.results[k])
           /\ rag.results[k].finalScore < FinalOne
    /\ \E k \in 1..Len(rag.results) :
           Boosted(rag.results[k]) /\ rag.results[k].finalScore = FinalOne
    /\ \E k \in 1..Len(rag.results) : ~Boosted(rag.results[k])

(***************************************************************************)
(* Failure of a sync run.                                                  *)
(***************************************************************************)
\* The error events broadcast whose payload names sync id s.
ErrorEventsFor(s) ==
    { k \in 1..Len(errorEvents) :
        errorEvents[k].source = "gmail" /\ errorEvents[k].syncId = s }

\* C11: a run that threw (fetch, normalize, SyncLog update or the embedding
\* drain) ends with its SyncLog failed and carrying the error message, an
\* error event of the source was broadcast for its sync id, and every
\* document it inserted before the exception is still persisted.
C11_FailedRun ==
    \A s \in SyncIds : run[s].pc = "failed" =>
        /\ syncLogs[s].status = "failed"
        /\ syncLogs[s].error_message = run[s].error
        /\ ErrorEventsFor(s) # {}
        /\ run[s].stored =>
              \A d \in ObservedIds(s) \ FailedIds(s) : Count(documents, d) = 1

(***************************************************************************)
(* Concurrent syncs: syncGmail starts performSync without waiting for the  *)
(* runs already started.                                                   *)
(***************************************************************************)
syncGmailConcurrent(s, syncType) ==
    /\ run[s].pc = "idle"
    /\ \A t \in SyncIds : t < s => run[t].pc # "idle"
    /\ syncLogs' = [syncLogs EXCEPT ![s] = createLog]
    /\ stream' = [stream EXCEPT ![s] = Emit(@, "fetching")]
    /\ run' = [run EXCEPT ![s].pc = "fetching", ![s].syncType = syncType]
    /\ last' = Op("syncGmail", s, syncType)
    /\ UNCHANGED <<documents, clock, faults, errorEvents, progressEvents, queryVars>>

\* The steps of concurrent runs that meet no injected failure.
\* The upstream messages two overlapping runs may fetch.
MaxConcurrentMsgs == 2

NextConcurrent ==
    \/ \E s \in SyncIds, syncType \in {"full", "incremental"} : syncGmailConcurrent(s, syncType)
    \/ \E s \in SyncIds, lo \in 1..MaxConcurrentMsgs, hi \in 0..MaxConcurrentMsgs :
          Fetch(s, lo, hi)
    \/ \E s \in SyncIds : Lookup(s)
    \/ \E s \in SyncIds : Insert(s)
    \/ \E s \in SyncIds : Complete(s, 0)
    \/ \E s \in SyncIds : DrainStats(s)
    \/ \E s \in SyncIds : DrainFetch(s)
    \/ \E s \in SyncIds : DrainChunk(s, 0)
    \/ \E s \in SyncIds : DrainCost(s)

SpecConcurrent == Init /\ [][NextConcurrent]_vars

\* The step is an insert of sync s that raised the unique violation 23505.
UniqueViolationStep(s) ==
    /\ run[s].pc = "insert"
    /\ run'[s] # run[s]
    /\ last'.op = "insert" /\ last'.sync = s /\ last'.outcome = "23505"

\* C12: a unique violation on document_id raised by an insert is not fatal
\* and is counted in the run's skipped counter, not in failed; so when two
\* concurrent syncs insert the same document_id the loser counts it as
\* skipped and goes on to the rest of its run.
C12_UniqueViolationSkipped ==
    [][\A s \in SyncIds : UniqueViolationStep(s) =>
          /\ run'[s].pc \in {"lookup", "complete"}
          /\ run'[s].documentsSkipped = run[s].documentsSkipped + 1
          /\ run'[s].documentsFailed = run[s].documentsFailed]_vars

(***************************************************************************)
(* EmbeddingService.embedTextWithRetry(text, maxRetries = 3).              *)
(***************************************************************************)
maxRetries == 3

\* The texts handed to the wrapper; the empty one is rejected by embedText.
Texts == {"", "mail", "song", "event"}

\* The messages of the errors the provider call throws.
ProviderErrors == {"429 Too Many Requests", "quota exceeded for metric",
                   "Quota exceeded", "fetch failed"}

\* String.prototype.includes on those messages (case-sensitive).
includes(message, needle) ==
    <<message, needle>> \in {<<"429 Too Many Requests", "429">>,
                             <<"quota exceeded for metric", "quota">>}

isRateLimited(message) == includes(message, "429") \/ includes(message, "quota")

RECURSIVE Pow(_, _)
Pow(base, exponent) == IF exponent = 0 THEN 1 ELSE base * Pow(base, exponent - 1)

\* The delay slept after the failed attempt.
delayMsFixed(attempt) == 2000

delayMs(attempt) == Pow(2, attempt) * 1000

\* The call starts the loop with attempt = 1 and awaits embedText.
embedTextWithRetry(text) ==
    /\ retry.pc = "idle"
    /\ retry' = [IdleRetry EXCEPT !.pc = "embedText", !.text = text, !.attempt = 1]
    /\ UNCHANGED <<cacheVars, rag, syncVars, chat, cron>>

\* embedText returns the embedding, which the wrapper returns.
embedTextReturns ==
    /\ retry.pc = "embedText"
    /\ retry.text # ""
    /\ retry' = [retry EXCEPT !.pc = "returned"]
    /\ UNCHANGED <<cacheVars, rag, syncVars, chat, cron>>

\* The catch clause: sleep before the next attempt when the error is a
\* rate-limit error and attempts are left, rethrow otherwise.
catchError(r, message) ==
    IF isRateLimited(message) /\ r.attempt < maxRetries
    THEN [r EXCEPT !.pc = "sleep", !.errors = Append(@, message),
                   !.waits = Append(@, delayMs(r.attempt))]
    ELSE [r EXCEPT !.pc = "thrown", !.errors = Append(@, message), !.error = message]

\* embedText throws: its own validation error for an empty text, the
\* provider's error otherwise.
embedTextThrows(message) ==
    /\ retry.pc = "embedText"
    /\ retry.text = "" <=> message = "Text must be a non-empty string"
    /\ retry' = catchError(retry, message)
    /\ UNCHANGED <<cacheVars, rag, syncVars, chat, cron>>

\* sleep(delayMs) resolves and the loop goes on with attempt + 1.
sleepResolves ==
    /\ retry.pc = "sleep"
    /\ retry' = [retry EXCEPT !.pc = "embedText", !.attempt = @ + 1]
    /\ UNCHANGED <<cacheVars, rag, syncVars, chat, cron>>

NextRetry ==
    \/ \E text \in Texts : embedTextWithRetry(text)
    \/ embedTextReturns
    \/ \E message \in ProviderErrors \cup {"Text must be a non-empty string"} :
          embedTextThrows(message)
    \/ sleepResolves

SpecRetry == Init /\ [][NextRetry]_vars

\* The wrapper has left the catch clause of its k-th attempt.
Handled(k) == k <= Len(retry.errors)

UsedHybrid == Retrieved /\ rag.keywordCount >= 2

\* C14: when the processed query carries filters and the pipeline chooses
\* hybrid search, every returned document has the filtered source, an
\* author matching the extracted person and a timestamp inside the time
\* window, keyword match or not.
C14_HybridHonoursFilters ==
    UsedHybrid =>
        \A k \in 1..Len(rag.results) :
            /\ rag.filters.source # "" => rag.results[k].source = rag.filters.source
            /\ rag.filters.author # "" => ILike(rag.results[k].author, rag.filters.author)
            /\ InTimeRange(rag.results[k], rag.filters.timeRange)

(***************************************************************************)
(* ChatController.sendMessage / sendMessageStream and ChatService.chat /   *)
(* chatStream, one action per await.                                       *)
(***************************************************************************)
MaxChatDocs == 2

MaxChunks == 2

\* req.body.message: missing, a number, and strings: empty, blank, and two
\* questions, the second with surrounding blanks.
Bodies ==
    { [isString |-> FALSE, text |-> ""],
      [isString |-> FALSE, text |-> "42"],
      [isString |-> TRUE, text |-> ""],
      [isString |-> TRUE, text |-> "   "],
      [isString |-> TRUE, text |-> "zxq9"],
      [isString |-> TRUE, text |-> " emails from Ravi about the budget report last month "] }

\* String.prototype.trim on those strings
trimText(text) ==
    CASE text = "   " -> ""
      [] text = " emails from Ravi about the budget report last month " ->
             "emails from Ravi about the budget report last month"
      [] OTHER -> text

\* The controllers' test: !message || typeof message !== "string" || !message.trim()
MissingMessageUntrimmed(body) == ~body.isString \/ body.text = ""

MissingMessage(body) == ~body.isString \/ body.text = "" \/ trimText(body.text) = ""

\* RAGPipeline.process: userQuery is a string with something besides blanks.
ValidQuery(userQuery) == userQuery # "" /\ trimText(userQuery) # ""

\* QueryProcessor.process on the questions asked.
processedQueryOf(userQuery) ==
    IF userQuery = "emails from Ravi about the budget report last month"
    THEN [intent |-> "search_email", keywordCount |-> 2,
          filters |-> [source |-> "gmail", author |-> "Ravi", potentialAuthor |-> "",
                       timeRange |-> [given |-> TRUE, startAge |-> 60, endAge |-> 0]]]
    ELSE [intent |-> "general_search", keywordCount |-> 1, filters |-> NoFilters]

\* The rows an index can hold when a question is asked: those of IndexRows
\* and an email too long for the context budget.
ChatRows ==
    IndexRows \cup
    { [source |-> "gmail", type |-> "email", similarity |-> 240, ageDays |-> 0,
       matches |-> "keyword", content |-> "archive",
       author |-> "Meera", keywordsInAuthor |-> 0] }

ChatIndexes == UNION { [1..n -> ChatRows] : n \in 0..MaxChatDocs }

\* The options ChatService passes: topN 10, minSimilarity 0.5.
chatOptions == [retrievalOptions(TRUE) EXCEPT !.minSimilarity = 150]

\* retrieveWithFallback
retrieveWithFallback(index, processedQuery, options) ==
    LET fallback(results) ==
            IF Len(results) < 3
            THEN CHOOSE taken \in
                     { IF Len(relaxed) > Len(results) THEN relaxed ELSE results :
                       relaxed \in { retrieve(index, processedQuery,
                                              relaxedOptions(options)) } } : TRUE
            ELSE results
    IN  CHOOSE taken \in { fallback(results) :
                             results \in { retrieve(index, processedQuery, options) } } : TRUE

\* The prompt RAGPipeline.process builds: buildPrompt when the formatted
\* context has documents, buildNoContextPrompt otherwise.
promptOfAnyContext(formattedContext) == "buildPrompt"

promptOf(formattedContext) ==
    IF Len(formattedContext.documents) > 0 THEN "buildPrompt" ELSE "buildNoContextPrompt"

\* RAGPipeline.process on a valid query: what ChatService reads of the result.
ragProcess(index, userQuery) ==
    LET formatted == { [results |-> results, context |-> format(results)] :
                         results \in { retrieveWithFallback(index, processedQueryOf(userQuery),
                                                            chatOptions) } }
    IN  CHOOSE ragResult \in
            { [results |-> f.results,
               prompt |-> promptOf(f.context),
               contextString |-> f.context.contextString,
               citations |-> formatForCitation(f.context.documents),
               totalDocuments |-> f.context.metadata.totalDocuments,
               selectedDocuments |-> f.context.metadata.selectedDocuments] :
              f \in formatted } : TRUE

\* socketServer.emitRAGProgress(queryId, {stage, progress}), emitRAGComplete
\* and emitRAGError as the chat service calls them.
emitRAGProgress(stage, progress) ==
    [event |-> "rag:progress", stage |-> stage, progress |-> progress]

emitRAGComplete == [event |-> "rag:complete", stage |-> "complete", progress |-> 100]

emitRAGError(stage) == [event |-> "rag:error", stage |-> stage, progress |-> NULL]

\* The events chat and chatStream emit before they await the pipeline.
Starting == <<emitRAGProgress("processing_query", 10),
              emitRAGProgress("creating_embedding", 20)>>

\* The controller's 400 answer.
BadRequest(c, body) ==
    [c EXCEPT !.pc = "responded", !.body = body,
              !.response = [@ EXCEPT !.status = 400, !.success = FALSE,
                                     !.error = "Message is required"]]

\* res.json(result) sends the result with status 200.
Json(c, success, error) ==
    [c EXCEPT !.pc = "responded",
              !.response = [status |-> 200, success |-> success, error |-> error,
                            documentsUsed |-> IF success THEN c.ragResult.citations ELSE <<>>,
                            selectedDocuments |-> IF success THEN c.ragResult.selectedDocuments
                                                  ELSE NULL]]

\* After the generator of chatStream has ended the controller writes the
\* [DONE] marker and ends the response.
EndStream(c) == [c EXCEPT !.pc = "closed", !.frames = Append(@, "[DONE]")]

\* The catch clause of chat returns {success: false, error}, which the
\* controller sends with res.json; the catch clause of chatStream yields an
\* error frame.
ChatCatch(c, message) ==
    IF c.stream
    THEN EndStream([c EXCEPT !.threw = TRUE, !.frames = Append(@, "error"),
                             !.events = Append(@, emitRAGError("streaming_failed"))])
    ELSE Json([c EXCEPT !.threw = TRUE, !.events = Append(@, emitRAGError("chat_failed"))],
              FALSE, message)

\* POST /chat/message
sendMessage(body, conversationId) ==
    /\ chat.pc = "idle"
    /\ chat' = IF MissingMessage(body) THEN BadRequest(chat, body)
               ELSE [chat EXCEPT !.pc = "rag", !.body = body,
                                 !.userQuery = trimText(body.text),
                                 !.conversationId = conversationId,
                                 !.events = Starting]
    /\ UNCHANGED <<cacheVars, rag, syncVars, retry, cron>>

\* POST /chat/message/stream
sendMessageStream(body, conversationId) ==
    /\ chat.pc = "idle"
    /\ chat' = IF MissingMessage(body) THEN BadRequest(chat, body)
               ELSE [chat EXCEPT !.pc = "rag", !.stream = TRUE, !.body = body,
                                 !.userQuery = trimText(body.text),
                                 !.conversationId = conversationId,
                                 !.events = Starting]
    /\ UNCHANGED <<cacheVars, rag, syncVars, retry, cron>>

\* await ragPipeline.process(userQuery, ...) returns (or throws its
\* validation error before any call); chatStream then yields the context
\* frame.
RagResolves(rows) ==
    /\ chat.pc = "rag"
    /\ chat' = IF ~ValidQuery(chat.userQuery)
               THEN ChatCatch(chat, "Invalid query: Query must be a non-empty string")
               ELSE [chat EXCEPT !.ragResult = ragProcess(Stored(rows), chat.userQuery),
                                 !.external = @ \cup {"embedding", "search"},
                                 !.frames = IF chat.stream THEN Append(@, "context") ELSE @,
                                 !.events =
                                     IF chat.stream
                                     THEN @ \o <<emitRAGProgress("search_complete", 50),
                                                 emitRAGProgress("generating_response", 70)>>
                                     ELSE @ \o <<emitRAGProgress("search_complete", 50),
                                                 emitRAGProgress("formatting_context", 60),
                                                 emitRAGProgress("generating_response", 70)>>,
                                 !.pc = IF chat.stream THEN "llm_stream"
                                        ELSE IF chat.conversationId THEN "history"
                                        ELSE "llm"]
    /\ UNCHANGED <<cacheVars, rag, syncVars, retry, cron>>

\* The embedding provider or the database search throws inside the pipeline.
RagRejects(message) ==
    /\ chat.pc = "rag"
    /\ ValidQuery(chat.userQuery)
    /\ chat' = ChatCatch([chat EXCEPT !.external =
                            @ \cup (IF message = "Search failed" THEN {"embedding", "search"}
                                    ELSE {"embedding"})],
                         message)
    /\ UNCHANGED <<cacheVars, rag, syncVars, retry, cron>>

\* The turns production stores per conversation and replays at most (20),
\* scaled down.
MaxTurns == 4
maxMessagesPerConversation == 3
maxTokenPerConversation == 9000

\* estimateTokens of a message of that many characters:
\* Math.ceil(text.length / 4)
estimateTokensOfLength(length) == (length + 3) \div 4

\* The turns a conversation may hold, given by the lengths of their two
\* messages, and the conversations table of one conversation in created_at
\* order.
Turns == { [user |-> 4000, assistant |-> 4000], [user |-> 16000, assistant |-> 3999],
           [user |-> 16000, assistant |-> 16001] }

Conversations == UNION { [1..n -> Turns] : n \in 0..MaxTurns }

\* ConversationMemory.getConversationHistory: ORDER BY created_at DESC
\* LIMIT $2, reversed; each row with its position in the table.
getConversationHistory(table, limit) ==
    [k \in 1..Min(limit, Len(table)) |->
        LET n == Len(table) - Min(limit, Len(table)) + k
        IN  [turn |-> n, user_message |-> table[n].user,
             assistant_message |-> table[n].assistant]]

RECURSIVE HistoryLoop(_, _, _, _)
RECURSIVE HistoryLoopNoBreak(_, _, _, _)
\* The loop of formatForGemini over the history: break when the next turn
\* would exceed the limit.
HistoryLoopNoBreak(history, messages, totalTokens, limit) ==
    IF history = <<>> THEN messages
    ELSE HistoryLoopNoBreak(Tail(history),
                            messages \o
                                <<[role |-> "user", turn |-> Head(history).turn,
                                   content |-> Head(history).user_message],
                                  [role |-> "assistant", turn |-> Head(history).turn,
                                   content |-> Head(history).assistant_message]>>,
                            totalTokens, limit)

HistoryLoop(history, messages, totalTokens, limit) ==
    IF history = <<>> THEN messages
    ELSE LET turn == Head(history)
             userTokens == estimateTokensOfLength(turn.user_message)
             assistantTokens == estimateTokensOfLength(turn.assistant_message)
         IN  IF totalTokens + userTokens + assistantTokens > limit
             THEN messages
             ELSE HistoryLoop(Tail(history),
                              messages \o
                                  <<[role |-> "user", turn |-> turn.turn,
                                     content |-> turn.user_message],
                                    [role |-> "assistant", turn |-> turn.turn,
                                     content |-> turn.assistant_message]>>,
                              totalTokens + userTokens + assistantTokens, limit)

\* ConversationMemory.formatForGemini: the replayed turns, then the current
\* user message (turn 0).
formatForGemini(table, currentUserMessage) ==
    Append(HistoryLoop(getConversationHistory(table, maxMessagesPerConversation),
                       <<>>, 0, maxTokenPerConversation),
           [role |-> "user", turn |-> 0, content |-> currentUserMessage])

\* await conversationMemory.formatForGemini(conversationId, prompt)
HistoryResolves(table) ==
    /\ chat.pc = "history"
    /\ chat' = [chat EXCEPT !.pc = "llm", !.external = @ \cup {"history"},
                            !.stored = table,
                            !.messages = formatForGemini(table, chat.ragResult.prompt)]
    /\ UNCHANGED <<cacheVars, rag, syncVars, retry, cron>>

HistoryRejects ==
    /\ chat.pc = "history"
    /\ chat' = ChatCatch([chat EXCEPT !.external = @ \cup {"history"}],
                         "Error getting conversation history")
    /\ UNCHANGED <<cacheVars, rag, syncVars, retry, cron>>

\* await geminiService.chat(messages) / generateResponse(prompt)
LlmResolves ==
    /\ chat.pc = "llm"
    /\ chat' = IF chat.conversationId
               THEN [chat EXCEPT !.pc = "save", !.external = @ \cup {"llm"},
                                 !.events = Append(@, emitRAGProgress("finalizing", 90))]
               ELSE Json([chat EXCEPT !.external = @ \cup {"llm"},
                                      !.events = @ \o <<emitRAGProgress("finalizing", 90),
                                                        emitRAGComplete>>],
                         TRUE, "")
    /\ UNCHANGED <<cacheVars, rag, syncVars, retry, cron>>

LlmRejects ==
    /\ chat.pc = "llm"
    /\ chat' = ChatCatch([chat EXCEPT !.external = @ \cup {"llm"}], "Error generating response")
    /\ UNCHANGED <<cacheVars, rag, syncVars, retry, cron>>

\* generateStreamingResponse yields a chunk of text: a text frame.
StreamChunk ==
    /\ chat.pc = "llm_stream"
    /\ Cardinality({ k \in 1..Len(chat.frames) : chat.frames[k] = "text" }) < MaxChunks
    /\ chat' = [chat EXCEPT !.frames = Append(@, "text"), !.external = @ \cup {"llm"}]
    /\ UNCHANGED <<cacheVars, rag, syncVars, retry, cron>>

\* generateStreamingResponse yields its final chunk: the done frame and
\* rag:complete, then the save of the turn when there is a conversation.
StreamDone ==
    /\ chat.pc = "llm_stream"
    /\ chat' = IF chat.conversationId
               THEN [chat EXCEPT !.pc = "save", !.frames = Append(@, "done"),
                                 !.events = Append(@, emitRAGComplete),
                                 !.external = @ \cup {"llm"}]
               ELSE EndStream([chat EXCEPT !.frames = Append(@, "done"),
                                           !.events = Append(@, emitRAGComplete),
                                           !.external = @ \cup {"llm"}])
    /\ UNCHANGED <<cacheVars, rag, syncVars, retry, cron>>

\* generateStreamingResponse throws, before or between chunks.
StreamThrows ==
    /\ chat.pc = "llm_stream"
    /\ chat' = ChatCatch([chat EXCEPT !.external = @ \cup {"llm"}],
                         "Error in streaming response")
    /\ UNCHANGED <<cacheVars, rag, syncVars, retry, cron>>

\* await conversationMemory.saveConversation(...); chat emits rag:complete
\* after it.
SaveResolves ==
    /\ chat.pc = "save"
    /\ chat' = LET saved == [chat EXCEPT !.saved = @ + 1, !.external = @ \cup {"save"}]
               IN  IF chat.stream THEN EndStream(saved)
                   ELSE Json([saved EXCEPT !.events = Append(@, emitRAGComplete)], TRUE, "")
    /\ UNCHANGED <<cacheVars, rag, syncVars, retry, cron>>

SaveRejects ==
    /\ chat.pc = "save"
    /\ chat' = ChatCatch([chat EXCEPT !.external = @ \cup {"save"}], "Error saving conversation")
    /\ UNCHANGED <<cacheVars, rag, syncVars, retry, cron>>

NextChat ==
    \/ \E body \in Bodies, conversationId \in BOOLEAN : sendMessage(body, conversationId)
    \/ \E body \in Bodies, conversationId \in BOOLEAN : sendMessageStream(body, conversationId)
    \/ \E rows \in ChatIndexes : RagResolves(rows)
    \/ \E message \in {"Error generating embedding", "Search failed"} : RagRejects(message)
    \/ \E table \in Conversations : HistoryResolves(table)
    \/ HistoryRejects
    \/ LlmResolves
    \/ LlmRejects
    \/ StreamChunk
    \/ StreamDone
    \/ StreamThrows
    \/ SaveResolves
    \/ SaveRejects

SpecChat == Init /\ [][NextChat]_vars

(***************************************************************************)
(* Properties of the chat request.                                         *)
(***************************************************************************)
\* The request carried an empty or whitespace-only message.
EmptyQuery == chat.pc # "idle" /\ chat.body.isString /\ trimText(chat.body.text) = ""

\* C15: an empty or whitespace-only query is rejected with a validation
\* error before any external call: no embedding-provider call, no database
\* search, no LLM call, and no conversation turn is saved.
C15_EmptyQueryRejected ==
    EmptyQuery =>
        /\ chat.pc = "responded"
        /\ chat.response.status = 400 /\ ~chat.response.success
        /\ chat.response.error = "Message is required"
        /\ chat.external = {}
        /\ chat.saved = 0
        /\ chat.frames = <<>>

\* A whitespace-only message was answered.
C15_Witness ==
    /\ chat.pc = "responded"
    /\ chat.body = [isString |-> TRUE, text |-> "   "]
    /\ chat.response.status = 400

\* The pipeline returned, and its retrieval (fallback included) returned no
\* document or none of the documents it returned fits the context budget.
NothingFits ==
    /\ chat.ragResult.prompt # ""
    /\ \A k \in 1..Len(chat.ragResult.results) :
          estimateTokens(formatDocument(chat.ragResult.results[k])) > maxContextTokens

\* The sentences the formatter returns for no context.
NoContextSentinels ==
    { << Piece("nothing for this query", 0, NoText, 0) >>, << Piece("nothing", 0, NoText, 0) >> }

\* C16: when retrieval yields zero documents or no supplied document fits
\* the token budget, the formatter returns the no-context sentinel with an
\* empty document list, the prompt is built from the no-context template,
\* the citation list is empty, and the chat response (when no later step
\* fails) has success = true with selectedDocuments = 0.
C16_NoContext ==
    NothingFits =>
        /\ chat.ragResult.contextString \in NoContextSentinels
        /\ chat.ragResult.selectedDocuments = 0
        /\ chat.ragResult.prompt = "buildNoContextPrompt"
        /\ chat.ragResult.citations = <<>>
        /\ (chat.pc = "responded" /\ ~chat.threw) =>
              /\ chat.response.status = 200 /\ chat.response.success
              /\ chat.response.selectedDocuments = 0
              /\ chat.response.documentsUsed = <<>>

\* An answered chat whose retrieval found documents of which none fits.
C16_Witness ==
    /\ NothingFits
    /\ chat.ragResult.totalDocuments > 0
    /\ chat.pc = "responded" /\ chat.response.success
    /\ chat.response.selectedDocuments = 0

\* The positions of the frames of the given types in the event stream.
FramesOf(types) == { k \in 1..Len(chat.frames) : chat.frames[k] \in types }

\* C17: a streamed chat response has at most one context frame, which
\* precedes all text frames, and exactly one terminal frame, done or error;
\* nothing follows the terminal frame but the closing [DONE] marker, so no
\* stream holds both a done and an error frame.
C17_FrameSequence ==
    chat.stream =>
        /\ Cardinality(FramesOf({"context"})) <= 1
        /\ \A c \in FramesOf({"context"}), t \in FramesOf({"text"}) : c < t
        /\ Cardinality(FramesOf({"done", "error"})) <= 1
        /\ \A e \in FramesOf({"done", "error"}), k \in 1..Len(chat.frames) :
              k > e => (k = e + 1 /\ chat.frames[k] = "[DONE]")
        /\ chat.pc = "closed" =>
              /\ Cardinality(FramesOf({"done", "error"})) = 1
              /\ chat.frames[Len(chat.frames)] = "[DONE]"

\* C19: a chat request whose pipeline fails with an internal error is
\* answered with success = false and a 5xx status, a request with invalid
\* input with success = false and a 4xx status; no failing request is
\* answered with a 2xx status.
C19_FailureStatus ==
    (chat.pc = "responded" /\ ~chat.stream) =>
        /\ chat.threw =>
              /\ ~chat.response.success /\ chat.response.error # ""
              /\ chat.response.status \in 500..599
        /\ MissingMessage(chat.body) =>
              /\ ~chat.response.success
              /\ chat.response.status \in 400..499
        /\ ~chat.response.success => chat.response.status \notin 200..299

(***************************************************************************)
(* The cursor of incremental runs.                                         *)
(***************************************************************************)
\* The runs that finished with status success before run s started.
PriorSuccessRows(s) == { t \in SuccessRows(syncLogs) : t < s }

\* The most recent of them.
MostRecentSuccess(s) ==
    CHOOSE t \in PriorSuccessRows(s) : \A u \in PriorSuccessRows(s) : u <= t

\* The incremental runs that have read their cursor.
Resumed(s) == run[s].syncType = "incremental" /\ run[s].since # NULL

\* C18: an incremental sync resumes from the last_sync_timestamp of the most
\* recent SyncLog row whose status is success; failed and in_progress rows
\* never supply the cursor, and a failed run does not advance it.
C18_IncrementalCursor ==
    \A s \in SyncIds :
        Resumed(s) /\ PriorSuccessRows(s) # {} =>
            run[s].since = syncLogs[MostRecentSuccess(s)].last_sync_timestamp

(***************************************************************************)
(* Failed chunks of the embedding drain.                                   *)
(***************************************************************************)
\* The step is a chunk of the drain of sync s.
ChunkStep(s) ==
    /\ run[s].pc = "drain_chunk"
    /\ last'.op = "chunk"
    /\ last'.sync = s

\* embedBatch threw, or batchUpdateEmbeddings threw and rolled back.
ChunkFailed == last'.outcome \in {"embed_fail", "update_fail"}

\* C20: when a chunk of an embedding batch fails, the run does not abort:
\* every document of the chunk still has needs_embedding = true and no new
\* vector, the remaining chunks of the batch are still processed, and only
\* documents of successful chunks are counted in processed.
C20_FailedChunkSkipped ==
    [][\A s \in SyncIds :
          ChunkStep(s) =>
              /\ ChunkFailed =>
                    /\ \A d \in ChunkIds(Chunk(run[s])) :
                           \A k \in RowsOf(documents', d) :
                               /\ documents'[k].needs_embedding
                               /\ documents'[k].embedding = documents[k].embedding
                    /\ run'[s].pc \in {"drain_chunk", "drain_fetch"}
                    /\ syncLogs' = syncLogs
                    /\ errorEvents' = errorEvents
                    /\ run[s].ci + BatchChunkSize <= Len(run[s].batch) =>
                           /\ run'[s].pc = "drain_chunk"
                           /\ run'[s].batch = run[s].batch
                           /\ run'[s].ci = run[s].ci + BatchChunkSize
                    /\ run'[s].totalProcessed = run[s].totalProcessed
              /\ ~ChunkFailed =>
                    run'[s].totalProcessed =
                        run[s].totalProcessed + Len(Chunk(run[s]))]_vars

\* The first chunk of a batch failed and the second chunk is next; the
\* documents of the first chunk are still pending.
C20_Witness ==
    /\ last.op = "chunk"
    /\ last.outcome \in {"embed_fail", "update_fail"}
    /\ run[last.sync].pc = "drain_chunk"
    /\ run[last.sync].ci = 1 + BatchChunkSize
    /\ \A d \in last.ids : RowNow(d).needs_embedding

(***************************************************************************)
(* Progress events of the embedding drain.                                 *)
(***************************************************************************)
\* C21: every progress event the embedding drain emits before its final
\* completion, sync-scoped or embeddings:progress, carries a percentage of
\* at most 99.
C21_ProgressCapped ==
    \A k \in 1..Len(progressEvents) : progressEvents[k].progress <= 99

(***************************************************************************)
(* The bound and the eviction order of the query-embedding cache.          *)
(***************************************************************************)
\* The step is the _setCache of call c, with a key the cache does not hold
\* and the cache at capacity.
NewKeyAtCapacity(c) ==
    /\ calls[c].pc = "awaiting"
    /\ calls'[c].pc = "returned"
    /\ CachePos(embeddingCache, _getCacheKey(calls[c].query)) = {}
    /\ Len(embeddingCache) >= cacheMaxSize

ReprocessIds == { [source |-> "gmail", id |-> m] : m \in 1..(MaxConcurrentMsgs + 1) }

\* The request bodies: documentIds missing or no array, or an array of ids.
ReprocessBodies ==
    { [isArray |-> FALSE, documentIds |-> {}] }
    \cup { [isArray |-> TRUE, documentIds |-> ids] : ids \in SUBSET ReprocessIds }

\* UPDATE documents SET needs_embedding = true, embedding = NULL ...
\* RETURNING document_id, with WHERE document_id = ANY($1) only when the
\* array is not empty.
markForReembedding(table, documentIds) ==
    LET hit == IF documentIds # {}
               THEN { k \in 1..Len(table) : table[k].document_id \in documentIds }
               ELSE 1..Len(table)
    IN  [count |-> Cardinality(hit),
         table |-> [k \in 1..Len(table) |->
                       IF k \in hit
                       THEN [table[k] EXCEPT !.needs_embedding = TRUE, !.embedding = NULL]
                       ELSE table[k]]]

\* router.post("/reprocess"): 400 unless documentIds is an array, otherwise
\* markForReembedding and {marked: count}.  Requests are taken between
\* sync runs.
reprocess(body) ==
    /\ \A s \in SyncIds : ~Active(s)
    /\ IF ~body.isArray
       THEN /\ documents' = documents
            /\ last' = Op("reprocess", 0, "400")
       ELSE LET r == markForReembedding(documents, body.documentIds)
            IN  /\ documents' = r.table
                /\ last' = [Op("reprocess", 0, "200") EXCEPT
                               !.ids = body.documentIds, !.before = documents,
                               !.marked = r.count]
    /\ UNCHANGED <<syncLogs, run, stream, clock, faults, errorEvents, progressEvents,
                   queryVars>>

\* Reprocess requests between syncs that meet no injected failure.
NextReprocess ==
    \/ \E s \in SyncIds, syncType \in {"full", "incremental"} : syncGmail(s, syncType)
    \/ \E s \in SyncIds, lo \in 1..MaxConcurrentMsgs, hi \in 0..MaxConcurrentMsgs :
          Fetch(s, lo, hi)
    \/ \E s \in SyncIds : Lookup(s)
    \/ \E s \in SyncIds : Insert(s)
    \/ \E s \in SyncIds : Complete(s, 0)
    \/ \E s \in SyncIds : DrainStats(s)
    \/ \E s \in SyncIds : DrainFetch(s)
    \/ \E s \in SyncIds : DrainChunk(s, 0)
    \/ \E s \in SyncIds : DrainCost(s)
    \/ \E body \in ReprocessBodies : reprocess(body)

SpecReprocess == Init /\ [][NextReprocess]_vars

\* C23: a reprocess request with a documentIds array marks exactly the
\* existing documents whose ids are in the array (needs_embedding = true,
\* embedding cleared) and leaves embedding and needs_embedding of every
\* other document unchanged, for every array including the empty one.
C23_ReprocessExactlyListed ==
    (last.op = "reprocess" /\ last.outcome = "200") =>
        /\ Len(documents) = Len(last.before)
        /\ \A k \in 1..Len(documents) :
              IF last.before[k].document_id \in last.ids
              THEN documents[k].needs_embedding /\ documents[k].embedding = NULL
              ELSE /\ documents[k].needs_embedding = last.before[k].needs_embedding
                   /\ documents[k].embedding = last.before[k].embedding

(***************************************************************************)
(* The rag:* events of a query.                                            *)
(***************************************************************************)
\* The documented stages, in order.
Stages == <<"processing_query", "creating_embedding", "search_complete",
            "formatting_context", "generating_response", "finalizing">>

StageIndex(stage) == CHOOSE n \in 1..Len(Stages) : Stages[n] = stage

\* The positions of the terminal events among the events of the query.
Terminals == { k \in 1..Len(chat.events) : chat.events[k].event # "rag:progress" }

\* The request has been answered, or its stream closed, by the chat service.
Answered == chat.pc \in {"responded", "closed"} /\ chat.events # <<>>

\* C24: in the blocking and in the streaming path, the rag:progress events
\* of a query come in the documented stage order with non-decreasing
\* progress, followed by exactly one terminal event: rag:complete if the
\* query finished, rag:error if it failed; never both and never a progress
\* event after the terminal one.
C24_EventOrder ==
    /\ \A j, k \in 1..Len(chat.events) :
          (j < k /\ chat.events[j].event = "rag:progress"
                 /\ chat.events[k].event = "rag:progress") =>
              /\ StageIndex(chat.events[j].stage) < StageIndex(chat.events[k].stage)
              /\ chat.events[j].progress <= chat.events[k].progress
    /\ Cardinality(Terminals) <= 1
    /\ \A k \in Terminals : k = Len(chat.events)
    /\ Answered =>
          /\ Cardinality(Terminals) = 1
          /\ chat.events[Len(chat.events)].event =
                 IF chat.threw THEN "rag:error" ELSE "rag:complete"

(***************************************************************************)
(* The message list rebuilt from the stored turns of a conversation.       *)
(***************************************************************************)
\* formatForGemini has returned the message list of the request.
Formatted == chat.messages # <<>>

\* The replayed historical messages: all but the current user message.
Replayed == SubSeq(chat.messages, 1, Len(chat.messages) - 1)

RECURSIVE SumTokens(_)
SumTokens(messages) ==
    IF messages = <<>> THEN 0
    ELSE estimateTokensOfLength(Head(messages).content) + SumTokens(Tail(messages))

ReplayedTurns == { Replayed[k].turn : k \in 1..Len(Replayed) }

\* C25: the estimated tokens of the replayed historical messages sum to at
\* most maxTokenPerConversation, at most maxMessagesPerConversation turns
\* are replayed, in chronological order as user/assistant pairs, and the
\* current user message is the last element.
C25_HistoryBudget ==
    Formatted =>
        /\ SumTokens(Replayed) <= maxTokenPerConversation
        /\ Len(Replayed) <= 2 * maxMessagesPerConversation
        /\ Len(Replayed) % 2 = 0
        /\ \A k \in 1..Len(Replayed) :
              /\ Replayed[k].role = IF k % 2 = 1 THEN "user" ELSE "assistant"
              /\ Replayed[k].turn \in 1..Len(chat.stored)
              /\ Replayed[k].content =
                     IF k % 2 = 1 THEN chat.stored[Replayed[k].turn].user
                     ELSE chat.stored[Replayed[k].turn].assistant
              /\ k % 2 = 0 => Replayed[k].turn = Replayed[k - 1].turn
              /\ (k % 2 = 1 /\ k > 1) => Replayed[k].turn > Replayed[k - 1].turn
        /\ chat.messages[Len(chat.messages)] =
               [role |-> "user", turn |-> 0, content |-> chat.ragResult.prompt]

\* Three stored turns were replayed and fill the budget exactly, from a
\* conversation that holds more turns than are read.
C25_Witness ==
    /\ Formatted
    /\ Len(chat.stored) > maxMessagesPerConversation
    /\ Len(Replayed) = 2 * maxMessagesPerConversation
    /\ SumTokens(Replayed) = maxTokenPerConversation

\* The stored turns of the conversation exceed the token budget.
OverBudget ==
    SumTokens([k \in 1..Len(chat.stored) |-> [content |-> chat.stored[k].user]])
    + SumTokens([k \in 1..Len(chat.stored) |-> [content |-> chat.stored[k].assistant]])
        > maxTokenPerConversation

\* C26: when the stored turns exceed the token budget, the replayed turns
\* are the most recent ones: a contiguous chronological run that ends with
\* the latest stored turn.
C26_MostRecentReplayed ==
    (Formatted /\ OverBudget) =>
        \E first \in 1..(Len(chat.stored) + 1) : ReplayedTurns = first..Len(chat.stored)

(***************************************************************************)
(* Termination of processAllPendingEmbeddings.                             *)
(***************************************************************************)
\* embedBatch throws for as long as the provider is down: the chunk is
\* logged and skipped, whatever the number of earlier failures.
DrainChunkProviderDown(s) ==
    /\ run[s].pc = "drain_chunk"
    /\ run' = [run EXCEPT ![s] = NextChunk(@)]
    /\ last' = [Op("chunk", s, "embed_fail") EXCEPT
                   !.ids = ChunkIds(Chunk(run[s])), !.before = documents]
    /\ UNCHANGED <<documents, syncLogs, stream, clock, faults, errorEvents, progressEvents,
                   queryVars>>

\* Sync runs whose database never fails and whose embedding provider may
\* fail any number of times.
NextDrain ==
    \/ \E s \in SyncIds, syncType \in {"full", "incremental"} : syncGmail(s, syncType)
    \/ \E s \in SyncIds, lo \in 1..MaxConcurrentMsgs, hi \in 0..MaxConcurrentMsgs :
          Fetch(s, lo, hi)
    \/ \E s \in SyncIds : Lookup(s)
    \/ \E s \in SyncIds : Insert(s)
    \/ \E s \in SyncIds : Complete(s, 0)
    \/ \E s \in SyncIds : DrainStats(s)
    \/ \E s \in SyncIds : DrainFetch(s)
    \/ \E s \in SyncIds : DrainChunk(s, 0)
    \/ \E s \in SyncIds : DrainChunkProviderDown(s)
    \/ \E s \in SyncIds : DrainCost(s)

\* Every step of a started run is eventually taken: the event loop resumes
\* each await that has settled.
SpecDrain == Init /\ [][NextDrain]_vars /\ WF_vars(NextDrain)

\* C27: every run of processAllPendingEmbeddings eventually terminates,
\* for every behaviour of the embedding provider.
C27_DrainTerminates ==
    \A s \in SyncIds :
        (run[s].pc = "drain_stats") ~> (run[s].pc \in {"done", "failed"})

(***************************************************************************)
(* Chunks that mix contents: which vector each document receives.          *)
(***************************************************************************)
\* Pending rows that another writer of the documents table left behind:
\* their content is text or white space only.
SeedRows ==
    { [document_id |-> [source |-> "gmail", id |-> m],
       content |-> IF blank THEN Whitespace ELSE m,
       embedding |-> NULL, needs_embedding |-> TRUE] :
        m \in 1..MaxConcurrentMsgs, blank \in BOOLEAN }

SeedTables ==
    { t \in UNION { [1..n -> SeedRows] : n \in 1..MaxConcurrentMsgs } :
        \A j, k \in 1..Len(t) : j # k => t[j].document_id # t[k].document_id }

\* The table as the first sync finds it.
Seed(table) ==
    /\ last.op = "init"
    /\ documents' = table
    /\ last' = Op("seed", 0, "ok")
    /\ UNCHANGED <<syncLogs, run, stream, clock, faults, errorEvents, progressEvents,
                   queryVars>>

\* Syncs that meet no injected failure, on a table that may hold such rows.
NextSeeded ==
    \/ \E table \in SeedTables : Seed(table)
    \/ \E s \in SyncIds, syncType \in {"full", "incremental"} : syncGmail(s, syncType)
    \/ \E s \in SyncIds, lo \in 1..MaxConcurrentMsgs, hi \in 0..MaxConcurrentMsgs :
          Fetch(s, lo, hi)
    \/ \E s \in SyncIds : Lookup(s)
    \/ \E s \in SyncIds : Insert(s)
    \/ \E s \in SyncIds : Complete(s, 0)
    \/ \E s \in SyncIds : DrainStats(s)
    \/ \E s \in SyncIds : DrainFetch(s)
    \/ \E s \in SyncIds : DrainChunk(s, 0)
    \/ \E s \in SyncIds : DrainCost(s)

SpecSeeded == Init /\ [][NextSeeded]_vars

\* C28: every embedding a chunk stores belongs to the right document: the
\* vector written to a document is the one the provider returned for that
\* document's prepared content, for every mix of contents in the chunk.
C28_VectorOfOwnContent ==
    last.op = "chunk" =>
        \A d \in last.ids :
            RowNow(d).embedding # RowBefore(d).embedding =>
                /\ prepareText(RowBefore(d).content) # EmptyText
                /\ RowNow(d).embedding = prepareText(RowBefore(d).content)

\* A chunk held a document of white space only and a document with text.
C28_Witness ==
    /\ last.op = "chunk"
    /\ \E d \in last.ids : RowBefore(d).content = Whitespace
    /\ \E d \in last.ids : RowBefore(d).content \notin {Whitespace, EmptyText}

(***************************************************************************)
(* EmbeddingCronJob.executeJob, as called by the schedule, by start and by *)
(* triggerManually.  No sync runs beside it, so the documents table is     *)
(* empty and processPendingEmbeddings returns with nothing processed, or   *)
(* throws when its query fails.                                            *)
(***************************************************************************)
\* executeJob up to its await: skip when isRunning, otherwise set the flag
\* and call the pipeline.  start makes the immediate call before any other.
executeJob(t, trigger) ==
    /\ cron.jobs[t].pc = "idle"
    /\ \A u \in 1..MaxTriggers : u < t => cron.jobs[u].pc # "idle"
    /\ trigger = "immediate" => t = 1
    /\ cron' = IF cron.isRunning
               THEN [cron EXCEPT !.jobs[t] = [pc |-> "skipped", trigger |-> trigger,
                                              found |-> TRUE, called |-> FALSE]]
               ELSE [cron EXCEPT !.isRunning = TRUE,
                                 !.jobs[t] = [pc |-> "running", trigger |-> trigger,
                                              found |-> FALSE, called |-> TRUE]]
    /\ UNCHANGED <<cacheVars, rag, syncVars, retry, chat>>

\* The try statement of executeJob after the await: the catch clause logs,
\* the finally clause resets the flag.
SettleKeepsFlagOnThrow(c, t, outcome) ==
    [c EXCEPT !.isRunning = (outcome = "failed"), !.jobs[t].pc = outcome]

Settle(c, t, outcome) == [c EXCEPT !.isRunning = FALSE, !.jobs[t].pc = outcome]

\* await embeddingPipeline.processPendingEmbeddings() returns
PipelineReturns(t) ==
    /\ cron.jobs[t].pc = "running"
    /\ cron' = Settle(cron, t, "returned")
    /\ UNCHANGED <<cacheVars, rag, syncVars, retry, chat>>

\* ... or throws
PipelineThrows(t) ==
    /\ cron.jobs[t].pc = "running"
    /\ cron' = Settle(cron, t, "failed")
    /\ UNCHANGED <<cacheVars, rag, syncVars, retry, chat>>

NextCron ==
    \/ \E t \in 1..MaxTriggers, trigger \in {"immediate", "scheduled", "manual"} :
          executeJob(t, trigger)
    \/ \E t \in 1..MaxTriggers : PipelineReturns(t)
    \/ \E t \in 1..MaxTriggers : PipelineThrows(t)

SpecCron == Init /\ [][NextCron]_vars

\* The executions in progress.
Executing == { t \in 1..MaxTriggers : cron.jobs[t].pc = "running" }

\* C29: at most one execution of the embedding job is in progress; a
\* trigger that arrives while one is running is skipped without calling the
\* pipeline; and the running flag is false again after every execution,
\* whether the pipeline returned or threw.
C29_SingleExecution ==
    /\ Cardinality(Executing) <= 1
    /\ cron.isRunning <=> Executing # {}
    /\ \A t \in 1..MaxTriggers :
          cron.jobs[t].pc # "idle" =>
              /\ cron.jobs[t].found <=> cron.jobs[t].pc = "skipped"
              /\ cron.jobs[t].pc = "skipped" => ~cron.jobs[t].called
              /\ cron.jobs[t].pc # "skipped" => cron.jobs[t].called

\* A manual trigger was skipped during an execution whose pipeline then
\* threw, and the scheduled trigger after it is executing.
C29_Witness ==
    /\ cron.jobs[1].pc = "failed"
    /\ cron.jobs[2].pc = "skipped" /\ cron.jobs[2].trigger = "manual"
    /\ cron.jobs[3].pc = "running" /\ cron.jobs[3].trigger = "scheduled"

(***************************************************************************)
(* The counters of the storing loop of performSync.                        *)
(***************************************************************************)
\* syncLogRepo.complete of sync s has just returned: the storing phase of
\* the run is over and its SyncLog row is written.
StoringEnded(s) == last.op = "complete" /\ last.sync = s

\* The rows the run put into the documents table: one sync runs at a time,
\* so they are the rows that were not there when its storing loop started.
InsertedBy(s) == Len(documents) - Len(run[s].snapshot)

\* C30: at the end of the storing phase of a sync run, added + skipped +
\* failed is the number of normalized documents, the documents_stored of its
\* SyncLog is added, and documents_stored is the number of documents the run
\* inserted into the store.
C30_StoringCounters ==
    \A s \in SyncIds : StoringEnded(s) =>
        /\ run[s].documentsAdded + run[s].documentsSkipped + run[s].documentsFailed
             = Len(run[s].normalizedDocs)
        /\ syncLogs[s].documents_stored = run[s].documentsAdded
        /\ syncLogs[s].documents_stored = InsertedBy(s)

\* A second run ended its storing phase having inserted one document,
\* skipped one that the first run had stored and failed one.
C30_Witness ==
    \E s \in SyncIds :
        /\ StoringEnded(s)
        /\ run[s].snapshot # <<>>
        /\ run[s].documentsAdded = 1
        /\ run[s].documentsSkipped = 1
        /\ run[s].documentsFailed = 1
        /\ syncLogs[s].documents_stored = 1

====
